---------------------------- MODULE Spec2Model ----------------------------
(***************************************************************************)
(* A model of the layoff-barometer monitor (src/enhanced.py): the multi-   *)
(* problem collector, the weighted index calculator, the trend analyzer,   *)
(* the seasonal adjuster, the risk scorer and the collect-and-analyze      *)
(* cycle that writes the day's record into the history and flushes it.     *)
(*                                                                         *)
(* Python floats are modelled as exact rationals <<n, d>> in lowest terms  *)
(* with d > 0; Python ints as integers. A Python dict is modelled as the   *)
(* sequence of its items in insertion order, which is the order Python     *)
(* iterates it in and the order json.dump writes it in.                    *)
(***************************************************************************)
EXTENDS Integers, Sequences, FiniteSets, TLC

VARIABLES
    now,            \* datetime.datetime.now(), as the day of the year 2024
    file,           \* recession_history.json on disk
    daily_indices,  \* RecessionIndexCalculator.daily_indices
    pc,             \* position of the process
    cursor,         \* collect_all_problems: position in the catalog
    results,        \* collect_all_problems: the results dict being filled
    success_count,  \* collect_all_problems: success_count
    answers,        \* the stats field of each question answered in the cycle
    problem_data,   \* collect_and_analyze: what collect_all_problems returned
    weighted,       \* what calculate_weighted_index returned last
    result,         \* what calculate_recession_probability returned last
    returned,       \* what collect_and_analyze returned last
    log,            \* what save_history logged last
    window,         \* the days calculate_acceleration was last called with
    accel,          \* what calculate_acceleration returned last
    cycles,         \* number of cycles started
    advanced,       \* number of midnights passed
    atStart,        \* the history, in memory and on disk, when the cycle began
    prev,           \* date, inputs and record of the completed cycle before last
    last,           \* date, inputs and record of the last completed cycle
    clock,          \* src/main.py: datetime.datetime.now(), day and minute
    data_file,      \* two_sum_history.json on disk
    two_sum_history, \* TwoSumDataCollector.history
    running,        \* TwoSumDataCollector.running
    at,             \* position of the single-problem collector's process
    attempt,        \* fetch_current_data, fetch_from_official_api: attempt
    requests,       \* the requests sent since collect_data was called
    fetched,        \* what fetch_current_data returned last
    choice,         \* what input() returned last
    collected,      \* what collect_data returned last
    atCall,         \* history and data_file when collect_data was called
    last_collection, \* run: last_collection
    collection_key, \* run: collection_key
    should,         \* what should_collect_now returned last, and for what
    invoked,        \* the collection keys run has called collect_data for
    polls           \* number of turns of the polling loop

vars == <<now, file, daily_indices, pc, cursor, results, success_count, answers,
          problem_data, weighted, result, returned, log, window,
          accel, cycles, advanced, atStart, prev, last,
          clock, data_file, two_sum_history, running, at, attempt, requests, fetched,
          choice, collected, atCall, last_collection, collection_key, should,
          invoked, polls>>

(* The variables of src/enhanced.py and those of src/main.py: two programs *)
(* that do not run in one process.                                         *)
calculatorVars ==
    <<now, file, daily_indices, pc, cursor, results, success_count, answers,
      problem_data, weighted, result, returned, log, window,
      accel, cycles, advanced, atStart, prev, last>>

collectorVars ==
    <<clock, data_file, two_sum_history, running, at, attempt, requests, fetched,
      choice, collected, atCall, last_collection, collection_key, should,
      invoked, polls>>

None == [is_none |-> TRUE]

-----------------------------------------------------------------------------
(* Float arithmetic, as exact rational arithmetic.                         *)

AbsInt(i) == IF i < 0 THEN -i ELSE i

RECURSIVE Gcd(_, _)
Gcd(a, b) == IF b = 0 THEN a ELSE Gcd(b, a % b)

(* n/d in lowest terms with a positive denominator.                        *)
Frac(n, d) ==
    IF n = 0 THEN <<0, 1>>
    ELSE IF d < 0 THEN <<(-n) \div Gcd(AbsInt(n), -d), (-d) \div Gcd(AbsInt(n), -d)>>
    ELSE <<n \div Gcd(AbsInt(n), d), d \div Gcd(AbsInt(n), d)>>

R(i) == <<i, 1>>

RAdd(x, y) ==
    IF x[2] = y[2]
    THEN Frac(x[1] + y[1], x[2])
    ELSE Frac(x[1] * (y[2] \div Gcd(x[2], y[2])) + y[1] * (x[2] \div Gcd(x[2], y[2])),
              (x[2] \div Gcd(x[2], y[2])) * y[2])

RNeg(x) == <<-x[1], x[2]>>

RSub(x, y) == RAdd(x, RNeg(y))

RMul(x, y) ==
    IF x[1] = 0 \/ y[1] = 0 THEN <<0, 1>>
    ELSE <<Frac(x[1], y[2])[1] * Frac(y[1], x[2])[1],
           Frac(x[1], y[2])[2] * Frac(y[1], x[2])[2]>>

RDiv(x, y) == RMul(x, Frac(y[2], y[1]))

(* x < y: by the integer parts, and by the fractional parts when those    *)
(* are equal.                                                              *)
RLt(x, y) ==
    IF x[1] \div x[2] # y[1] \div y[2]
    THEN x[1] \div x[2] < y[1] \div y[2]
    ELSE (x[1] % x[2]) * y[2] < (y[1] % y[2]) * x[2]

RGt(x, y) == RLt(y, x)

RMin(x, y) == IF RLt(y, x) THEN y ELSE x

RMax(x, y) == IF RGt(y, x) THEN y ELSE x

RAbs(x) == <<AbsInt(x[1]), x[2]>>

Pow10(digits) == IF digits = 0 THEN 1 ELSE IF digits = 1 THEN 10 ELSE 100

(* round(x, digits): to the nearest multiple of 10^-digits, a tie going to *)
(* the even one.                                                           *)
RRound(x, digits) ==
    LET y == RMul(x, R(Pow10(digits)))
        q == y[1] \div y[2]
        r == y[1] - q * y[2]
        k == IF 2 * r < y[2] THEN q
             ELSE IF 2 * r > y[2] THEN q + 1
             ELSE IF q % 2 = 0 THEN q ELSE q + 1
    IN  Frac(k, Pow10(digits))

(* sum(s): the exact sum does not depend on the order of the additions,   *)
(* which are made here by halves.                                          *)
RECURSIVE RSumRange(_, _, _)
RSumRange(s, lo, hi) ==
    IF lo > hi THEN R(0)
    ELSE IF lo = hi THEN s[lo]
    ELSE RAdd(RSumRange(s, lo, (lo + hi) \div 2),
              RSumRange(s, ((lo + hi) \div 2) + 1, hi))

RSum(s) == RSumRange(s, 1, Len(s))

-----------------------------------------------------------------------------
(* The calendar: now is a day of 2024, counted from 1 (January 1st).       *)

DaysInMonth == <<31, 29, 31, 30, 31, 30, 31, 31, 30, 31, 30, 31>>

RECURSIVE MonthOf(_, _)
MonthOf(day, m) ==
    IF day <= DaysInMonth[m] THEN <<m, day>> ELSE MonthOf(day - DaysInMonth[m], m + 1)

(* strftime('%Y-%m-%d'): the zero-padded fields year, month, day; such     *)
(* strings compare as these triples do.                                    *)
Strftime(day) == <<2024, MonthOf(day, 1)[1], MonthOf(day, 1)[2]>>

Timedelta(days) == days

StrLt(a, b) ==
    \/ a[1] < b[1]
    \/ a[1] = b[1] /\ a[2] < b[2]
    \/ a[1] = b[1] /\ a[2] = b[2] /\ a[3] < b[3]

-----------------------------------------------------------------------------
(* Python dicts with date keys: sequences of items [k, v].                 *)

EmptyDict == <<>>

Keys(d) == [i \in 1..Len(d) |-> d[i].k]

Values(d) == [i \in 1..Len(d) |-> d[i].v]

HasKey(d, key) == \E i \in 1..Len(d) : d[i].k = key

DictGet(d, key, default) ==
    IF HasKey(d, key)
    THEN d[CHOOSE i \in 1..Len(d) : d[i].k = key /\ \A j \in 1..(i - 1) : d[j].k # key].v
    ELSE default

(* d[key] = value: replaces the value of an existing key in place, appends *)
(* a new key.                                                              *)
DictSetAppend(d, key, value) == Append(d, [k |-> key, v |-> value])

DictSet(d, key, value) ==
    IF HasKey(d, key)
    THEN [i \in 1..Len(d) |-> IF d[i].k = key THEN [k |-> key, v |-> value] ELSE d[i]]
    ELSE Append(d, [k |-> key, v |-> value])

RECURSIVE SortedSet(_)
SortedSet(S) ==
    IF S = {} THEN <<>>
    ELSE LET m == CHOOSE x \in S : \A y \in S \ {x} : StrLt(x, y)
         IN  <<m>> \o SortedSet(S \ {m})

(* sorted(d.keys()) *)
Sorted(keys) == SortedSet({keys[i] : i \in 1..Len(keys)})

(* s[:n] *)
FirstN(s, n) == IF Len(s) <= n THEN s ELSE SubSeq(s, 1, n)

(* s[-n:] *)
LastN(s, n) == IF Len(s) <= n THEN s ELSE SubSeq(s, Len(s) - n + 1, Len(s))

-----------------------------------------------------------------------------
(* MultiProblemCollector.problems: the catalog, in the order the dict is   *)
(* iterated. The display names are Chinese in the source; they are written *)
(* here in English.                                                        *)

Difficulties == <<"easy", "medium", "hard">>

problems ==
    [easy |->
        <<[slug |-> "two-sum", weight |-> Frac(3, 10), name |-> "Two Sum"],
          [slug |-> "valid-parentheses", weight |-> Frac(1, 4), name |-> "Valid Parentheses"],
          [slug |-> "merge-two-sorted-lists", weight |-> Frac(1, 4), name |-> "Merge Sorted Lists"],
          [slug |-> "best-time-to-buy-and-sell-stock", weight |-> Frac(1, 5), name |-> "Buy and Sell Stock"]>>,
     medium |->
        <<[slug |-> "add-two-numbers", weight |-> Frac(3, 10), name |-> "Add Two Numbers"],
          [slug |-> "longest-substring-without-repeating-characters", weight |-> Frac(1, 4), name |-> "Longest Substring"],
          [slug |-> "3sum", weight |-> Frac(1, 4), name |-> "Three Sum"],
          [slug |-> "container-with-most-water", weight |-> Frac(1, 5), name |-> "Container With Water"]>>,
     hard |->
        <<[slug |-> "median-of-two-sorted-arrays", weight |-> Frac(3, 10), name |-> "Median of Two Sorted Arrays"],
          [slug |-> "merge-k-sorted-lists", weight |-> Frac(1, 4), name |-> "Merge K Sorted Lists"],
          [slug |-> "regular-expression-matching", weight |-> Frac(1, 4), name |-> "Regular Expression Matching"],
          [slug |-> "trapping-rain-water", weight |-> Frac(1, 5), name |-> "Trapping Rain Water"]>>]

(* The catalog flattened in iteration order: the n-th problem fetched.     *)
CatalogOrder ==
    [n \in 1..12 |->
        LET difficulty == Difficulties[((n - 1) \div 4) + 1]
        IN  [difficulty |-> difficulty, problem |-> problems[difficulty][((n - 1) % 4) + 1]]]

(* The problem_data dict before and without any snapshot.                  *)
EmptyResults(t) == [easy |-> <<>>, medium |-> <<>>, hard |-> <<>>, timestamp |-> t]

NoData == [x \in {} |-> 0]

ItemKeys == <<"easy", "medium", "hard", "timestamp">>

-----------------------------------------------------------------------------
(* RecessionIndexCalculator.calculate_weighted_index                       *)

difficulty_weight(difficulty) ==
    CASE difficulty = "hard" -> Frac(3, 2)
      [] difficulty = "medium" -> Frac(6, 5)
      [] difficulty = "easy" -> R(1)
      [] OTHER -> R(1)

(* The loop over yesterday's problems: the count of the first entry with   *)
(* the slug, 0 when there is none.                                         *)
yesterday_total(yesterday_data, slug) ==
    IF DOMAIN yesterday_data # {} /\ "problems" \in DOMAIN yesterday_data
    THEN LET ps == yesterday_data.problems
             hit == {i \in 1..Len(ps) : ps[i].slug = slug}
         IN  IF hit = {} THEN 0
             ELSE ps[CHOOSE i \in hit : \A j \in hit : i <= j].total_submission
    ELSE 0

(* The increment as the difference to yesterday's total, found or not.     *)
increment_by_difference(problem, yesterday_data) ==
    problem.total_submission - yesterday_total(yesterday_data, problem.slug)

increment(problem, yesterday_data) ==
    LET yt == yesterday_total(yesterday_data, problem.slug)
    IN  IF yt > 0 THEN problem.total_submission - yt
        ELSE problem.total_submission \div 100

problem_score(problem, difficulty, yesterday_data) ==
    RMul(RMul(R(increment(problem, yesterday_data)), problem.weight),
         difficulty_weight(difficulty))

difficulty_score(ps, difficulty, yesterday_data) ==
    RSum([i \in 1..Len(ps) |-> problem_score(ps[i], difficulty, yesterday_data)])

(* details, as the items added while one difficulty is processed.          *)
DetailItems(ps, difficulty, yesterday_data) ==
    [i \in 1..Len(ps) |->
        [k |-> ps[i].slug,
         v |-> [increment |-> increment(ps[i], yesterday_data),
                score |-> problem_score(ps[i], difficulty, yesterday_data),
                weight |-> ps[i].weight,
                difficulty_weight |-> difficulty_weight(difficulty)]]]
    \o <<[k |-> difficulty \o "_score",
          v |-> difficulty_score(ps, difficulty, yesterday_data)]>>

RECURSIVE WeightedLoop(_, _, _)
WeightedLoop(data, keys, yesterday_data) ==
    IF keys = <<>> THEN [total_score |-> R(0), details |-> <<>>]
    ELSE LET rest == WeightedLoop(data, Tail(keys), yesterday_data)
             difficulty == Head(keys)
         IN  IF difficulty = "timestamp" THEN rest
             ELSE [total_score |->
                       RAdd(difficulty_score(data[difficulty], difficulty, yesterday_data),
                            rest.total_score),
                   details |->
                       DetailItems(data[difficulty], difficulty, yesterday_data)
                       \o rest.details]

(* The index with a floor at zero, which normalized_score does not have.   *)
normalized_score_floored(total_score) == RMax(RDiv(total_score, R(1000000)), R(0))

(* The normalisation with the index kept to two decimals.                  *)
normalized_score_rounded(total_score) == RRound(RDiv(total_score, R(1000000)), 2)

normalized_score(total_score) == RDiv(total_score, R(1000000))

calculate_weighted_index(data, history, t) ==
    IF DOMAIN data = {}
    THEN [index |-> R(0), raw_score |-> R(0), details |-> <<>>]
    ELSE LET yesterday == Strftime(t - Timedelta(1))
             yesterday_data == DictGet(history, yesterday, NoData)
             loop == WeightedLoop(data, ItemKeys, yesterday_data)
         IN  [index |-> normalized_score(loop.total_score),
              raw_score |-> loop.total_score,
              details |-> loop.details,
              timestamp |-> t]

-----------------------------------------------------------------------------
(* RecessionIndexCalculator.analyze_seasonal_pattern                       *)

(* The hiring seasons with May counted to the spring.                      *)
hiring_seasons_with_may == [spring |-> {3, 4, 5}, autumn |-> {9, 10}]

hiring_seasons == [spring |-> {3, 4}, autumn |-> {9, 10}]

analyze_seasonal_pattern(t) ==
    LET current_month == MonthOf(t, 1)[1]
        in_hiring_season == \E s \in DOMAIN hiring_seasons : current_month \in hiring_seasons[s]
    IN  IF in_hiring_season
        THEN [factor |-> Frac(13, 10), desc |-> "hiring season"]
        ELSE [factor |-> Frac(8, 10), desc |-> "off season"]

-----------------------------------------------------------------------------
(* RecessionIndexCalculator.calculate_acceleration                         *)

DefaultDays == 14

Derivative(xs) == [i \in 1..(Len(xs) - 1) |-> RSub(xs[i + 1], xs[i])]

(* The classification with the thresholds themselves in the upper class.  *)
ClassifyInclusive(avg_acceleration) ==
    IF ~RLt(avg_acceleration, Frac(1, 2))
    THEN [trend |-> "accelerating up", severity |-> "severe"]
    ELSE IF ~RLt(avg_acceleration, Frac(1, 10))
    THEN [trend |-> "slow rise", severity |-> "watch"]
    ELSE IF ~RLt(avg_acceleration, Frac(-1, 10))
    THEN [trend |-> "flat", severity |-> "normal"]
    ELSE [trend |-> "declining", severity |-> "improving"]

Classify(avg_acceleration) ==
    IF RGt(avg_acceleration, Frac(1, 2))
    THEN [trend |-> "accelerating up", severity |-> "severe"]
    ELSE IF RGt(avg_acceleration, Frac(1, 10))
    THEN [trend |-> "slow rise", severity |-> "watch"]
    ELSE IF RGt(avg_acceleration, Frac(-1, 10))
    THEN [trend |-> "flat", severity |-> "normal"]
    ELSE [trend |-> "declining", severity |-> "improving"]

(* The test with a history of exactly days records counted as too short.  *)
InsufficientDataInclusive(history, days) == Len(history) <= days

InsufficientData(history, days) == Len(history) < days

calculate_acceleration(history, days) ==
    IF InsufficientData(history, days) THEN None
    ELSE LET dates == LastN(Sorted(Keys(history)), days)
             indices == [i \in 1..Len(dates) |-> DictGet(history, dates[i], NoData).index]
             first_derivative == Derivative(indices)
             second_derivative == Derivative(first_derivative)
             avg_acceleration ==
                 IF second_derivative # <<>>
                 THEN RDiv(RSum(second_derivative), R(Len(second_derivative)))
                 ELSE R(0)
         IN  [acceleration |-> avg_acceleration,
              trend |-> Classify(avg_acceleration).trend,
              severity |-> Classify(avg_acceleration).severity]

-----------------------------------------------------------------------------
(* RecessionIndexCalculator.calculate_recession_probability                *)

base_contribution(base_index) == RMin(RMul(base_index, R(40)), R(40))

acc_score(acceleration_data) ==
    RMin(RMax(RMul(RAbs(acceleration_data.acceleration), R(20)), R(0)), R(30))

(* The acceleration term added for any acceleration result, whatever its   *)
(* sign.                                                                   *)
acceleration_contribution_unsigned(acceleration_data) ==
    IF acceleration_data # None
    THEN acc_score(acceleration_data)
    ELSE R(0)

acceleration_contribution(acceleration_data) ==
    IF acceleration_data # None
    THEN IF RGt(acceleration_data.acceleration, R(0))
         THEN acc_score(acceleration_data)
         ELSE R(0)
    ELSE R(0)

(* The comparison with the history without its cap of 20.                  *)
history_contribution_uncapped(base_index, history) ==
    IF Len(history) > 0
    THEN LET indices == [i \in 1..Len(history) |-> Values(history)[i].index]
             avg_index == RDiv(RSum(indices), R(Len(indices)))
         IN  IF RGt(avg_index, R(0))
             THEN RMul(RDiv(base_index, avg_index), R(20))
             ELSE R(0)
    ELSE R(0)

history_contribution(base_index, history) ==
    IF Len(history) > 0
    THEN LET indices == [i \in 1..Len(history) |-> Values(history)[i].index]
             avg_index == RDiv(RSum(indices), R(Len(indices)))
         IN  IF RGt(avg_index, R(0))
             THEN RMin(RMul(RDiv(base_index, avg_index), R(20)), R(20))
             ELSE R(0)
    ELSE R(0)

original_score(base_index, acceleration_data, history) ==
    RAdd(RAdd(base_contribution(base_index),
              acceleration_contribution(acceleration_data)),
         history_contribution(base_index, history))

(* The score bounded from below only.                                      *)
ClampBelow(score) == RMax(score, R(0))

Clamp(score) == RMin(RMax(score, R(0)), R(100))

final_score(base_index, acceleration_data, history, seasonal_factor) ==
    Clamp(RMul(original_score(base_index, acceleration_data, history), seasonal_factor))

(* The levels with the bounds 80, 60, 40 and 20 in the upper level.        *)
LevelInclusive(score) ==
    IF ~RLt(score, R(80))
    THEN [level |-> "critical",
          conclusion |-> "extremely high layoff risk, market abnormally active",
          action |-> "monitor immediately, prepare contingency"]
    ELSE IF ~RLt(score, R(60))
    THEN [level |-> "warning",
          conclusion |-> "elevated layoff risk",
          action |-> "stay alert, adjust hiring plan"]
    ELSE IF ~RLt(score, R(40))
    THEN [level |-> "watch",
          conclusion |-> "moderate risk, within normal fluctuation",
          action |-> "monitor periodically"]
    ELSE IF ~RLt(score, R(20))
    THEN [level |-> "low",
          conclusion |-> "market relatively stable",
          action |-> "normal operation, hiring permissible"]
    ELSE [level |-> "safe",
          conclusion |-> "market quiet, low risk",
          action |-> "good time to stockpile talent"]

Level(score) ==
    IF RGt(score, R(80))
    THEN [level |-> "critical",
          conclusion |-> "extremely high layoff risk, market abnormally active",
          action |-> "monitor immediately, prepare contingency"]
    ELSE IF RGt(score, R(60))
    THEN [level |-> "warning",
          conclusion |-> "elevated layoff risk",
          action |-> "stay alert, adjust hiring plan"]
    ELSE IF RGt(score, R(40))
    THEN [level |-> "watch",
          conclusion |-> "moderate risk, within normal fluctuation",
          action |-> "monitor periodically"]
    ELSE IF RGt(score, R(20))
    THEN [level |-> "low",
          conclusion |-> "market relatively stable",
          action |-> "normal operation, hiring permissible"]
    ELSE [level |-> "safe",
          conclusion |-> "market quiet, low risk",
          action |-> "good time to stockpile talent"]

probability(score) == RRound(score, 1)

(* The body of calculate_recession_probability from the point where      *)
(* calculate_weighted_index and calculate_acceleration have returned       *)
(* weighted_result and acceleration_data.                                  *)
calculate_recession_probability(weighted_result, acceleration_data, history, t) ==
    LET base_index == weighted_result.index
        seasonal == analyze_seasonal_pattern(t)
        score == final_score(base_index, acceleration_data, history, seasonal.factor)
    IN  [probability |-> probability(score),
         level |-> Level(score).level,
         conclusion |-> Level(score).conclusion,
         action |-> Level(score).action,
         base_index |-> RRound(base_index, 2),
         seasonal_factor |-> seasonal.factor,
         season_desc |-> seasonal.desc,
         acceleration |-> acceleration_data,
         details |-> weighted_result.details,
         timestamp |-> t]

-----------------------------------------------------------------------------
(* The history file and RecessionIndexCalculator.load_history /            *)
(* save_history.                                                           *)

NoFile == [exists |-> FALSE, valid |-> FALSE, data |-> EmptyDict]

JsonFile(data) == [exists |-> TRUE, valid |-> TRUE, data |-> data]

(* A file json.load cannot parse.                                          *)
BrokenFile == [exists |-> TRUE, valid |-> FALSE, data |-> EmptyDict]

(* A file that holds the records but that json.load cannot parse as a      *)
(* whole.                                                                  *)
DamagedFile(data) == [exists |-> TRUE, valid |-> FALSE, data |-> data]

load_history(f) ==
    IF f.exists
    THEN IF f.valid THEN f.data ELSE EmptyDict
    ELSE EmptyDict

-----------------------------------------------------------------------------
(* MultiProblemCollector.fetch_problem_data, as its outcome: the snapshot  *)
(* of a successful fetch, or the failure both APIs ended in.               *)

Snapshot(slug, total_submission, total_accepted) ==
    [success |-> TRUE, slug |-> slug, total_submission |-> total_submission,
     total_accepted |-> total_accepted]

(* The stats field of a question: a string that is the JSON of an object   *)
(* with the given string members, or not JSON at all. Strings are          *)
(* sequences of characters.                                                *)
StatsJson(members) == [json |-> TRUE, members |-> members]

NotJson == [json |-> FALSE]

DigitChars == <<"0", "1", "2", "3", "4", "5", "6", "7", "8", "9">>

(* str.replace(',', '')                                                    *)
RemoveCommas(str) == SelectSeq(str, LAMBDA c : c # ",")

(* int(str) succeeds on a non-empty string of decimal digits.              *)
IsInt(str) ==
    /\ str # <<>>
    /\ \A i \in 1..Len(str) : \E d \in 1..10 : DigitChars[d] = str[i]

DigitValue(c) == (CHOOSE d \in 1..10 : DigitChars[d] = c) - 1

RECURSIVE IntOf(_)
IntOf(str) ==
    IF str = <<>> THEN 0
    ELSE 10 * IntOf(SubSeq(str, 1, Len(str) - 1)) + DigitValue(str[Len(str)])

(* stats.get(key, '0')                                                     *)
stats_get(stats, key) ==
    IF key \in DOMAIN stats.members THEN stats.members[key] ELSE <<"0">>

(* The counters taken for zero when the stats field cannot be parsed.      *)
parse_stats_zero_default(stats) ==
    IF /\ stats.json
       /\ IsInt(RemoveCommas(stats_get(stats, "totalAccepted")))
       /\ IsInt(RemoveCommas(stats_get(stats, "totalSubmission")))
    THEN [total_accepted |-> IntOf(RemoveCommas(stats_get(stats, "totalAccepted"))),
          total_submission |-> IntOf(RemoveCommas(stats_get(stats, "totalSubmission")))]
    ELSE [total_accepted |-> 0, total_submission |-> 0]

(* The try block that parses stats, and its except branch.                 *)
parse_stats(stats) ==
    IF /\ stats.json
       /\ IsInt(RemoveCommas(stats_get(stats, "totalAccepted")))
       /\ IsInt(RemoveCommas(stats_get(stats, "totalSubmission")))
    THEN [total_accepted |-> IntOf(RemoveCommas(stats_get(stats, "totalAccepted"))),
          total_submission |-> IntOf(RemoveCommas(stats_get(stats, "totalSubmission")))]
    ELSE [total_accepted |-> 1000000, total_submission |-> 3000000]

(* fetch_problem_data when the GraphQL answer holds the question.          *)
fetch_problem_data(slug, stats) ==
    Snapshot(slug, parse_stats(stats).total_submission, parse_stats(stats).total_accepted)

(* The decimal digits of n, as the site writes a counter.                  *)
RECURSIVE DigitsOf(_)
DigitsOf(n) ==
    IF n < 10 THEN <<DigitChars[n + 1]>>
    ELSE Append(DigitsOf(n \div 10), DigitChars[(n % 10) + 1])

StatsOfCount(c) ==
    StatsJson([totalAccepted |-> DigitsOf(c \div 2), totalSubmission |-> DigitsOf(c)])

NoAnswers == [x \in {} |-> 0]

Answered(a, slug, stats) ==
    [x \in DOMAIN a \cup {slug} |-> IF x = slug THEN stats ELSE a[x]]

FetchFailed(slug) == [success |-> FALSE, slug |-> slug]

(* MultiProblemCollector._generate_demo_data: random.seed(42) makes the    *)
(* twelve randint(1000000, 5000000) draws the same in every call. The      *)
(* draws of the generator seeded with 42 are 3681950, 1585264, 3476705,    *)
(* 3119613, 2759593, 3928208, 1428700, 4385341, 1330511, 3421590, 4242483, *)
(* 2594364; the model takes them to the nearest 100000, which keeps the    *)
(* rationals computed from them within TLC's integers.                     *)
DemoSubmission ==
    <<3700000, 1600000, 3500000, 3100000, 2800000, 3900000,
      1400000, 4400000, 1300000, 3400000, 4200000, 2600000>>

DemoSnapshots(difficulty) ==
    [i \in 1..Len(problems[difficulty]) |->
        LET n == CHOOSE n \in 1..12 :
                     /\ CatalogOrder[n].difficulty = difficulty
                     /\ CatalogOrder[n].problem = problems[difficulty][i]
        IN  [success |-> TRUE,
             slug |-> problems[difficulty][i].slug,
             name |-> problems[difficulty][i].name,
             total_submission |-> DemoSubmission[n],
             weight |-> problems[difficulty][i].weight,
             is_demo |-> TRUE]]

generate_demo_data(t) ==
    [easy |-> DemoSnapshots("easy"),
     medium |-> DemoSnapshots("medium"),
     hard |-> DemoSnapshots("hard"),
     timestamp |-> t]

(* data['weight'] = ...; data['name'] = ...; results[difficulty].append(data) *)
AppendSnapshot(res, difficulty, problem, data) ==
    [res EXCEPT ![difficulty] =
        Append(@, [success |-> TRUE,
                   slug |-> data.slug,
                   total_submission |-> data.total_submission,
                   total_accepted |-> data.total_accepted,
                   weight |-> problem.weight,
                   name |-> problem.name])]

-----------------------------------------------------------------------------
(* RecessionDashboard.collect_and_analyze: the day's record.               *)

RECURSIVE ProblemEntries(_, _)
ProblemEntries(data, keys) ==
    IF keys = <<>> THEN <<>>
    ELSE (IF Head(keys) # "timestamp"
          THEN [i \in 1..Len(data[Head(keys)]) |->
                   [slug |-> data[Head(keys)][i].slug,
                    name |-> data[Head(keys)][i].name,
                    total_submission |-> data[Head(keys)][i].total_submission]]
          ELSE <<>>)
         \o ProblemEntries(data, Tail(keys))

DailyRecord(res, data) ==
    [index |-> res.base_index,
     probability |-> res.probability,
     problems |-> ProblemEntries(data, ItemKeys)]

(* The day's record stored in a history that keeps nothing else.           *)
StoreRecordAlone(history, today, record) == <<[k |-> today, v |-> record]>>

StoreRecord(history, today, record) == DictSet(history, today, record)

-----------------------------------------------------------------------------
(* Bounds of the model and the histories and fetch outcomes it draws from. *)

MaxCycles == 2

MaxAdvance == 1

(* February 29th: the next day is in the hiring season.                    *)
StartDay == 31 + 29

(* The slugs the network can deliver, and the totals the site can report.  *)
ReachableSlugs == {"two-sum", "median-of-two-sorted-arrays"}

SiteCounts == {0, 2000000}

(* A record as an earlier cycle wrote it: the index a multiple of 0.01,    *)
(* the probability a multiple of 0.1 within [0, 100].                      *)
HistoryItem(day, index_x100, total) ==
    [k |-> Strftime(day),
     v |-> [index |-> Frac(index_x100, 100),
            probability |-> Frac(125, 10),
            problems |-> <<[slug |-> "two-sum", name |-> "Two Sum",
                            total_submission |-> total]>>]]

(* n records of consecutive days the last of which is lastDay, the index   *)
(* of the i-th given by shape.                                             *)
ShapeValue(shape, i) ==
    CASE shape = "zero" -> 0
      [] shape = "flat" -> 50
      [] shape = "linear" -> 10 * i
      [] shape = "convex" -> 10 * i * i
      [] shape = "steep" -> 75 * i * i - 5400
      [] shape = "concave" -> 300 - 10 * i * i
      [] shape = "negative" -> -20
      [] shape = "cubic" -> i * i * i
      [] shape = "half" -> 25 * i * i
      [] shape = "tenth" -> 5 * i * i
      [] shape = "minus tenth" -> 100 - 5 * i * i
      [] shape = "flat high" -> 1200
      [] shape = "flat middle" -> 240
      [] shape = "three quarters" -> 75 * ((i * (i - 1)) \div 2) - 2400
      [] shape = "late jump" -> IF i <= 12 THEN 5095 ELSE IF i = 13 THEN 0 ELSE 1260

(* The same records inserted in the opposite order.                        *)
Reverse(s) == [i \in 1..Len(s) |-> s[Len(s) + 1 - i]]

GenHistory(lastDay, n, shape) ==
    [i \in 1..n |-> HistoryItem(lastDay - n + i, ShapeValue(shape, i), 1000000)]

SpecHistories ==
    {EmptyDict,
     GenHistory(StartDay - 1, 1, "flat"),
     GenHistory(StartDay, 2, "linear")}

SpecFiles == {NoFile, BrokenFile} \cup {JsonFile(h) : h \in SpecHistories}

KeySet(d) == {d[i].k : i \in 1..Len(d)}

(* The records of the dates other than key, in order.                      *)
Without(d, key) == SelectSeq(d, LAMBDA item : item.k # key)

-----------------------------------------------------------------------------
(* src/main.py is not running.                                             *)
CollectorNotStarted ==
    /\ clock = [day |-> 31 + 29, minute |-> 0]
    /\ data_file = NoFile
    /\ two_sum_history = EmptyDict
    /\ running = FALSE
    /\ at = "not started"
    /\ attempt = 0
    /\ requests = <<>>
    /\ fetched = None
    /\ choice = None
    /\ collected = None
    /\ atCall = None
    /\ last_collection = None
    /\ collection_key = None
    /\ should = None
    /\ invoked = <<>>
    /\ polls = 0

(* The process: main() constructs a RecessionDashboard for each run, which *)
(* loads the history; run() calls collect_and_analyze.                     *)

Init ==
    /\ CollectorNotStarted
    /\ now = StartDay
    /\ file \in SpecFiles
    /\ daily_indices = load_history(file)
    /\ pc = "ready"
    /\ cursor = 0
    /\ results = NoData
    /\ success_count = 0
    /\ answers = NoAnswers
    /\ problem_data = NoData
    /\ weighted = None
    /\ result = None
    /\ returned = None
    /\ log = "none"
    /\ window = 0
    /\ accel = None
    /\ cycles = 0
    /\ advanced = 0
    /\ atStart = [mem |-> load_history(file), disk |-> file]
    /\ prev = None
    /\ last = None

(* collect_and_analyze calls collect_all_problems, which starts with the   *)
(* empty results.                                                          *)
StartCollect ==
    /\ pc = "ready"
    /\ cycles < MaxCycles
    /\ cycles' = cycles + 1
    /\ pc' = "collect"
    /\ cursor' = 1
    /\ results' = EmptyResults(now)
    /\ success_count' = 0
    /\ answers' = NoAnswers
    /\ atStart' = [mem |-> daily_indices, disk |-> file]
    /\ UNCHANGED collectorVars
    /\ UNCHANGED <<now, file, daily_indices, problem_data, weighted, result,
                   returned, log, window, accel, advanced, prev, last>>

(* A turn of the loop that puts the snapshot into today's record at once. *)
FetchStepStoring(data) ==
    /\ pc = "collect"
    /\ cursor <= Len(CatalogOrder)
    /\ data.slug = CatalogOrder[cursor].problem.slug
    /\ IF data.success
       THEN /\ results' = AppendSnapshot(results, CatalogOrder[cursor].difficulty,
                                         CatalogOrder[cursor].problem, data)
            /\ success_count' = success_count + 1
            /\ daily_indices' =
                   DictSet(daily_indices, Strftime(now),
                           [index |-> R(0), probability |-> R(0),
                            problems |-> ProblemEntries(results', ItemKeys)])
       ELSE UNCHANGED <<results, success_count, daily_indices>>
    /\ cursor' = cursor + 1
    /\ UNCHANGED collectorVars
    /\ UNCHANGED <<now, file, pc, problem_data, weighted, result, returned, log,
                   window, accel, cycles, advanced, atStart, prev, last>>

(* A turn of the loop that appends what the fetch returned whether it      *)
(* succeeded or not.                                                       *)
FetchStepKeepingFailed(data) ==
    /\ pc = "collect"
    /\ cursor <= Len(CatalogOrder)
    /\ data.slug = CatalogOrder[cursor].problem.slug
    /\ results' =
           [results EXCEPT ![CatalogOrder[cursor].difficulty] =
               Append(@, [success |-> data.success,
                          slug |-> data.slug,
                          total_submission |->
                              IF data.success THEN data.total_submission ELSE 0,
                          total_accepted |->
                              IF data.success THEN data.total_accepted ELSE 0,
                          weight |-> CatalogOrder[cursor].problem.weight,
                          name |-> CatalogOrder[cursor].problem.name])]
    /\ success_count' = IF data.success THEN success_count + 1 ELSE success_count
    /\ cursor' = cursor + 1
    /\ UNCHANGED collectorVars
    /\ UNCHANGED <<now, file, daily_indices, pc, problem_data, weighted, result,
                   returned, log, window, accel, cycles, advanced, atStart,
                   prev, last>>

(* One turn of the loop of collect_all_problems.                           *)
FetchStep(data) ==
    /\ pc = "collect"
    /\ cursor <= Len(CatalogOrder)
    /\ data.slug = CatalogOrder[cursor].problem.slug
    /\ IF data.success
       THEN /\ results' = AppendSnapshot(results, CatalogOrder[cursor].difficulty,
                                         CatalogOrder[cursor].problem, data)
            /\ success_count' = success_count + 1
       ELSE UNCHANGED <<results, success_count>>
    /\ cursor' = cursor + 1
    /\ UNCHANGED collectorVars
    /\ UNCHANGED <<now, file, daily_indices, pc, problem_data, weighted, result,
                   returned, log, window, accel, cycles, advanced, atStart,
                   prev, last>>

(* The site answers the question with a stats field of parsable counters.  *)
FetchSuccess ==
    \E slug \in ReachableSlugs, c \in SiteCounts :
        /\ answers' = Answered(answers, slug, StatsOfCount(c))
        /\ FetchStep(fetch_problem_data(slug, StatsOfCount(c)))

(* Neither API gives the problem.                                          *)
FetchFailure ==
    /\ answers' = answers
    /\ \E n \in 1..Len(CatalogOrder) : FetchStep(FetchFailed(CatalogOrder[n].problem.slug))

(* The end of collect_all_problems with the results returned as they are.  *)
FinishCollectWithoutDemo ==
    /\ pc = "collect"
    /\ cursor > Len(CatalogOrder)
    /\ problem_data' = results
    /\ pc' = "score"
    /\ UNCHANGED collectorVars
    /\ UNCHANGED <<answers, now, file, daily_indices, cursor, results, success_count,
                   weighted, result, returned, log, window, accel, cycles,
                   advanced, atStart, prev, last>>

(* The end of collect_all_problems: the demo data when every fetch failed. *)
FinishCollect ==
    /\ pc = "collect"
    /\ cursor > Len(CatalogOrder)
    /\ problem_data' = IF success_count = 0 THEN generate_demo_data(now) ELSE results
    /\ pc' = "score"
    /\ UNCHANGED collectorVars
    /\ UNCHANGED <<answers, now, file, daily_indices, cursor, results, success_count,
                   weighted, result, returned, log, window, accel, cycles,
                   advanced, atStart, prev, last>>

(* The process is interrupted while collect_all_problems is fetching.      *)
Abandon ==
    /\ pc = "collect"
    /\ pc' = "aborted"
    /\ UNCHANGED collectorVars
    /\ UNCHANGED <<answers, now, file, daily_indices, cursor, results, success_count,
                   problem_data, weighted, result, returned, log, window, accel,
                   cycles, advanced, atStart, prev, last>>

(* calculate_recession_probability, in the three steps it takes one after *)
(* the other: the weighted index, the acceleration, the score. Nothing     *)
(* else runs between them.                                                 *)
WeightedIndex ==
    /\ pc = "score"
    /\ weighted' = calculate_weighted_index(problem_data, daily_indices, now)
    /\ pc' = "trend"
    /\ UNCHANGED collectorVars
    /\ UNCHANGED <<answers, now, file, daily_indices, cursor, results, success_count,
                   problem_data, result, returned, log, window, accel, cycles,
                   advanced, atStart, prev, last>>

DefaultAcceleration ==
    /\ pc = "trend"
    /\ window' = DefaultDays
    /\ accel' = calculate_acceleration(daily_indices, DefaultDays)
    /\ pc' = "risk"
    /\ UNCHANGED collectorVars
    /\ UNCHANGED <<answers, now, file, daily_indices, cursor, results, success_count,
                   problem_data, weighted, result, returned, log, cycles,
                   advanced, atStart, prev, last>>

RecessionProbability ==
    /\ pc = "risk"
    /\ result' = calculate_recession_probability(weighted, accel, daily_indices, now)
    /\ pc' = "record"
    /\ UNCHANGED collectorVars
    /\ UNCHANGED <<answers, now, file, daily_indices, cursor, results, success_count,
                   problem_data, weighted, returned, log, window, accel, cycles,
                   advanced, atStart, prev, last>>

WriteRecord ==
    /\ pc = "record"
    /\ daily_indices' = StoreRecord(daily_indices, Strftime(now),
                                    DailyRecord(result, problem_data))
    /\ prev' = last
    /\ last' = [date |-> Strftime(now),
                data |-> problem_data,
                prior |-> Without(daily_indices, Strftime(now)),
                record |-> DailyRecord(result, problem_data),
                size |-> Len(daily_indices')]
    /\ pc' = "save"
    /\ UNCHANGED collectorVars
    /\ UNCHANGED <<answers, now, file, cursor, results, success_count, problem_data,
                   weighted, result, returned, log, window, accel, cycles,
                   advanced, atStart>>

(* save_history, and the return of collect_and_analyze. The write can fail *)
(* at open(), which leaves the file, or in json.dump, after open() has     *)
(* truncated it; save_history logs either and returns.                     *)
SaveWritten(f, data) == JsonFile(data)

(* The cycle with a failed write propagating to the caller of              *)
(* collect_and_analyze, which then gets no return value.                   *)
SaveHistoryRaising ==
    /\ pc = "save"
    /\ \/ /\ file' = SaveWritten(file, daily_indices)
          /\ log' = "saved"
          /\ returned' = [result |-> result, problem_data |-> problem_data]
       \/ /\ file' \in {file, BrokenFile}
          /\ log' = "save failed"
          /\ returned' = None
    /\ pc' = "done"
    /\ UNCHANGED collectorVars
    /\ UNCHANGED <<answers, now, daily_indices, cursor, results, success_count,
                   problem_data, weighted, result, window, accel, cycles,
                   advanced, atStart, prev, last>>

SaveHistory ==
    /\ pc = "save"
    /\ \/ file' = SaveWritten(file, daily_indices) /\ log' = "saved"
       \/ file' = file /\ log' = "save failed"
       \/ file' = BrokenFile /\ log' = "save failed"
    /\ returned' = [result |-> result, problem_data |-> problem_data]
    /\ pc' = "done"
    /\ UNCHANGED collectorVars
    /\ UNCHANGED <<answers, now, daily_indices, cursor, results, success_count,
                   problem_data, weighted, result, window, accel, cycles,
                   advanced, atStart, prev, last>>

(* The next run: main() constructs a new RecessionDashboard.               *)
Construct ==
    /\ pc \in {"done", "aborted"}
    /\ cycles < MaxCycles
    /\ daily_indices' = load_history(file)
    /\ pc' = "ready"
    /\ UNCHANGED collectorVars
    /\ UNCHANGED <<answers, now, file, cursor, results, success_count, problem_data,
                   weighted, result, returned, log, window, accel, cycles,
                   advanced, atStart, prev, last>>

Midnight ==
    /\ pc \in {"done", "aborted"}
    /\ advanced < MaxAdvance
    /\ now' = now + 1
    /\ advanced' = advanced + 1
    /\ UNCHANGED collectorVars
    /\ UNCHANGED <<answers, file, daily_indices, pc, cursor, results, success_count,
                   problem_data, weighted, result, returned, log, window, accel,
                   cycles, atStart, prev, last>>

Next ==
    \/ StartCollect
    \/ FetchSuccess
    \/ FetchFailure
    \/ FinishCollect
    \/ Abandon
    \/ WeightedIndex
    \/ DefaultAcceleration
    \/ RecessionProbability
    \/ WriteRecord
    \/ SaveHistory
    \/ Construct
    \/ Midnight

Spec == Init /\ [][Next]_vars

-----------------------------------------------------------------------------
(* calculate_weighted_index on its own: the data and the history are drawn *)
(* and the calculator is applied to them.                                  *)

(* The snapshots collect_all_problems appends for the first problems of a  *)
(* difficulty, with the given totals.                                      *)
SnapshotList(difficulty, counts) ==
    [i \in 1..Len(counts) |->
        [success |-> TRUE,
         slug |-> problems[difficulty][i].slug,
         total_submission |-> counts[i],
         weight |-> problems[difficulty][i].weight,
         name |-> problems[difficulty][i].name]]

IndexCounts == {<<>>, <<0>>, <<150>>, <<1000000>>, <<2000000, 250>>}

IndexData ==
    {NoData} \cup
    {[easy |-> SnapshotList("easy", e),
      medium |-> SnapshotList("medium", m),
      hard |-> SnapshotList("hard", h),
      timestamp |-> StartDay] : e \in IndexCounts, m \in IndexCounts, h \in IndexCounts}

(* A history of one record, of the given day, with the given problems.     *)
OneRecord(day, entries) ==
    <<[k |-> Strftime(day),
       v |-> [index |-> Frac(5, 100), probability |-> Frac(125, 10),
              problems |-> entries]]>>

Entry(difficulty, i, total) ==
    [slug |-> problems[difficulty][i].slug,
     name |-> problems[difficulty][i].name,
     total_submission |-> total]

IndexHistories ==
    {EmptyDict,
     OneRecord(StartDay - 1, <<>>),
     OneRecord(StartDay - 1, <<Entry("easy", 1, 0)>>),
     OneRecord(StartDay - 1, <<Entry("easy", 1, 400000), Entry("medium", 1, 900000),
                               Entry("hard", 1, 3000000)>>),
     OneRecord(StartDay - 2, <<Entry("easy", 1, 400000)>>)}

InitIndex ==
    /\ CollectorNotStarted
    /\ now = StartDay
    /\ daily_indices \in IndexHistories
    /\ file = JsonFile(daily_indices)
    /\ pc = "score"
    /\ cursor = 0
    /\ results = NoData
    /\ success_count = 0
    /\ answers = NoAnswers
    /\ problem_data \in IndexData
    /\ weighted = None
    /\ result = None
    /\ returned = None
    /\ log = "none"
    /\ window = 0
    /\ accel = None
    /\ cycles = 0
    /\ advanced = 0
    /\ atStart = [mem |-> daily_indices, disk |-> file]
    /\ prev = None
    /\ last = None

NextIndex == WeightedIndex

SpecIndex == InitIndex /\ [][NextIndex]_vars

-----------------------------------------------------------------------------
(* calculate_acceleration and calculate_recession_probability on their     *)
(* own: the data, the history and the date are drawn.                      *)

ScoreData ==
    {NoData,
     [easy |-> SnapshotList("easy", <<2000000>>),
      medium |-> SnapshotList("medium", <<1000000>>),
      hard |-> SnapshotList("hard", <<3000000>>),
      timestamp |-> StartDay]}
    \cup
    {[easy |-> SnapshotList("easy", <<c>>), medium |-> <<>>, hard |-> <<>>,
      timestamp |-> StartDay] :
        c \in {0, 1000000, 2000000, 3000000, 5000000, 208500000}}

ScoreHistories ==
    {EmptyDict,
     GenHistory(StartDay - 1, 1, "flat"),
     GenHistory(StartDay - 1, DefaultDays - 1, "convex"),
     GenHistory(StartDay - 1, DefaultDays, "zero"),
     GenHistory(StartDay - 1, DefaultDays, "flat"),
     GenHistory(StartDay - 1, DefaultDays, "linear"),
     GenHistory(StartDay - 1, DefaultDays, "convex"),
     GenHistory(StartDay - 1, DefaultDays, "steep"),
     GenHistory(StartDay, DefaultDays, "steep"),
     GenHistory(StartDay - 1, DefaultDays, "concave"),
     GenHistory(StartDay - 1, DefaultDays, "negative"),
     GenHistory(StartDay - 1, DefaultDays + 1, "steep"),
     GenHistory(StartDay - 1, DefaultDays + 1, "cubic"),
     GenHistory(StartDay - 1, DefaultDays, "half"),
     GenHistory(StartDay - 1, DefaultDays, "tenth"),
     GenHistory(StartDay - 1, DefaultDays, "minus tenth"),
     GenHistory(StartDay - 1, DefaultDays, "flat high"),
     GenHistory(StartDay - 1, DefaultDays, "flat middle"),
     GenHistory(StartDay - 1, DefaultDays, "three quarters"),
     GenHistory(StartDay, DefaultDays, "late jump"),
     Reverse(GenHistory(StartDay - 1, DefaultDays, "cubic"))}

(* February 29th, off season, March 1st, hiring season, and the 15th of    *)
(* every month.                                                            *)
ScoreDays == {StartDay, StartDay + 1} \cup {d \in 1..366 : MonthOf(d, 1)[2] = 15}

QueryDays == {1, 3, DefaultDays, DefaultDays + 1}

InitScore ==
    /\ CollectorNotStarted
    /\ now \in ScoreDays
    /\ daily_indices \in ScoreHistories
    /\ file = JsonFile(daily_indices)
    /\ pc = "score"
    /\ cursor = 0
    /\ results = NoData
    /\ success_count = 0
    /\ answers = NoAnswers
    /\ problem_data \in ScoreData
    /\ weighted = None
    /\ result = None
    /\ returned = None
    /\ log = "none"
    /\ window = 0
    /\ accel = None
    /\ cycles = 0
    /\ advanced = 0
    /\ atStart = [mem |-> daily_indices, disk |-> file]
    /\ prev = None
    /\ last = None

(* A call of calculate_acceleration(days) by itself.                       *)
AccelerationQuery ==
    /\ pc = "score"
    /\ \E days \in QueryDays :
           /\ window' = days
           /\ accel' = calculate_acceleration(daily_indices, days)
    /\ UNCHANGED collectorVars
    /\ UNCHANGED <<answers, now, file, daily_indices, pc, cursor, results, success_count,
                   problem_data, weighted, result, returned, log, cycles,
                   advanced, atStart, prev, last>>

NextScore ==
    \/ AccelerationQuery
    \/ WeightedIndex
    \/ DefaultAcceleration
    \/ RecessionProbability

SpecScore == InitScore /\ [][NextScore]_vars

-----------------------------------------------------------------------------
(* Runs of the program that begin with a history file of one record,       *)
(* parsable or not.                                                        *)

RunFiles ==
    {JsonFile(GenHistory(StartDay - 1, 1, "flat")),
     DamagedFile(GenHistory(StartDay - 1, 1, "flat"))}

InitRuns ==
    /\ CollectorNotStarted
    /\ now = StartDay
    /\ file \in RunFiles
    /\ daily_indices = load_history(file)
    /\ pc = "ready"
    /\ cursor = 0
    /\ results = NoData
    /\ success_count = 0
    /\ answers = NoAnswers
    /\ problem_data = NoData
    /\ weighted = None
    /\ result = None
    /\ returned = None
    /\ log = "none"
    /\ window = 0
    /\ accel = None
    /\ cycles = 0
    /\ advanced = 0
    /\ atStart = [mem |-> load_history(file), disk |-> file]
    /\ prev = None
    /\ last = None

SpecRuns == InitRuns /\ [][Next]_vars

-----------------------------------------------------------------------------

(* Python floats as IEEE 754 binary64: a sign s, a significand m of 53     *)
(* bits (most significant first; empty for zero) and an exponent e, the    *)
(* value being s * m * 2^e. Every operation gives the exact result rounded *)
(* to nearest, ties to even. The values of the model stay far from the     *)
(* subnormal and the infinite.                                             *)

Precision == 53

Zeros(k) == [i \in 1..k |-> 0]

(* m without its leading zeros.                                            *)
Strip(m) ==
    IF \A i \in 1..Len(m) : m[i] = 0 THEN <<>>
    ELSE SubSeq(m, CHOOSE i \in 1..Len(m) : m[i] = 1 /\ \A j \in 1..(i - 1) : m[j] = 0,
                Len(m))

Front(m) == SubSeq(m, 1, Len(m) - 1)

PadTo(m, n) == Zeros(n - Len(m)) \o m

BigLt(a, b) ==
    \/ Len(a) < Len(b)
    \/ /\ Len(a) = Len(b)
       /\ \E i \in 1..Len(a) : a[i] < b[i] /\ \A j \in 1..(i - 1) : a[j] = b[j]

(* The upper and the lower half of a bit string.                           *)
Upper(m) == SubSeq(m, 1, Len(m) \div 2)

Lower(m) == SubSeq(m, Len(m) \div 2 + 1, Len(m))

(* The carry out of a + b + carry, for bit strings of one length, and the  *)
(* bits of the sum below it; both by halves, the lower half first.         *)
RECURSIVE Carry(_, _, _)
Carry(a, b, carry) ==
    IF a = <<>> THEN carry
    ELSE IF Len(a) = 1 THEN (a[1] + b[1] + carry) \div 2
    ELSE IF Carry(Lower(a), Lower(b), carry) = 1 THEN Carry(Upper(a), Upper(b), 1)
    ELSE Carry(Upper(a), Upper(b), 0)

RECURSIVE AddBits(_, _, _)
AddBits(a, b, carry) ==
    IF a = <<>> THEN <<>>
    ELSE IF Len(a) = 1 THEN <<(a[1] + b[1] + carry) % 2>>
    ELSE IF Carry(Lower(a), Lower(b), carry) = 1
    THEN AddBits(Upper(a), Upper(b), 1) \o AddBits(Lower(a), Lower(b), carry)
    ELSE AddBits(Upper(a), Upper(b), 0) \o AddBits(Lower(a), Lower(b), carry)

(* The same for a - b - borrow, a >= b.                                    *)
RECURSIVE Borrow(_, _, _)
Borrow(a, b, borrow) ==
    IF a = <<>> THEN borrow
    ELSE IF Len(a) = 1 THEN (IF a[1] - b[1] - borrow < 0 THEN 1 ELSE 0)
    ELSE IF Borrow(Lower(a), Lower(b), borrow) = 1 THEN Borrow(Upper(a), Upper(b), 1)
    ELSE Borrow(Upper(a), Upper(b), 0)

RECURSIVE SubBits(_, _, _)
SubBits(a, b, borrow) ==
    IF a = <<>> THEN <<>>
    ELSE IF Len(a) = 1 THEN <<(a[1] - b[1] - borrow + 2) % 2>>
    ELSE IF Borrow(Lower(a), Lower(b), borrow) = 1
    THEN SubBits(Upper(a), Upper(b), 1) \o SubBits(Lower(a), Lower(b), borrow)
    ELSE SubBits(Upper(a), Upper(b), 0) \o SubBits(Lower(a), Lower(b), borrow)

BigAdd(a, b) ==
    IF Len(a) >= Len(b)
    THEN Strip(<<Carry(a, PadTo(b, Len(a)), 0)>> \o AddBits(a, PadTo(b, Len(a)), 0))
    ELSE Strip(<<Carry(PadTo(a, Len(b)), b, 0)>> \o AddBits(PadTo(a, Len(b)), b, 0))

BigSub(a, b) == Strip(SubBits(a, PadTo(b, Len(a)), 0))

BigShl(m, k) == IF m = <<>> THEN <<>> ELSE m \o Zeros(k)

FZero == [s |-> 1, m |-> <<>>, e |-> 0]

(* The kept bits q of a longer significand, rounded by the dropped bits r. *)
RoundUp(q, r) ==
    /\ r[1] = 1
    /\ \/ q[Len(q)] = 1
       \/ \E i \in 2..Len(r) : r[i] = 1

(* The float nearest to s * m * 2^e.                                       *)
Rounded(s, m, e) ==
    IF m = <<>> THEN FZero
    ELSE IF Len(m) <= Precision
    THEN [s |-> s, m |-> m \o Zeros(Precision - Len(m)), e |-> e - (Precision - Len(m))]
    ELSE IF RoundUp(SubSeq(m, 1, Precision), SubSeq(m, Precision + 1, Len(m)))
    THEN IF Len(BigAdd(SubSeq(m, 1, Precision), <<1>>)) > Precision
         THEN [s |-> s, m |-> <<1>> \o Zeros(Precision - 1),
               e |-> e + (Len(m) - Precision) + 1]
         ELSE [s |-> s, m |-> BigAdd(SubSeq(m, 1, Precision), <<1>>),
               e |-> e + (Len(m) - Precision)]
    ELSE [s |-> s, m |-> SubSeq(m, 1, Precision), e |-> e + (Len(m) - Precision)]

FNeg(x) == IF x.m = <<>> THEN x ELSE [x EXCEPT !.s = -x.s]

MinInt(a, b) == IF a < b THEN a ELSE b

(* x + y                                                                   *)
FAdd(x, y) ==
    IF x.m = <<>> THEN y
    ELSE IF y.m = <<>> THEN x
    ELSE LET e0 == MinInt(x.e, y.e)
             mx == BigShl(x.m, x.e - e0)
             my == BigShl(y.m, y.e - e0)
         IN  IF x.s = y.s THEN Rounded(x.s, BigAdd(mx, my), e0)
             ELSE IF mx = my THEN FZero
             ELSE IF BigLt(my, mx) THEN Rounded(x.s, BigSub(mx, my), e0)
             ELSE Rounded(y.s, BigSub(my, mx), e0)

(* x - y                                                                   *)
FSub(x, y) == FAdd(x, FNeg(y))

(* x > y                                                                   *)
FGt(x, y) == FSub(x, y).m # <<>> /\ FSub(x, y).s = 1

RECURSIVE IntBits(_)
IntBits(n) == IF n = 0 THEN <<>> ELSE Append(IntBits(n \div 2), n % 2)

(* What is left of r, 0 <= r < d, after count binary digits of r / d       *)
(* after the point, and those digits; both by halves, the first half       *)
(* first.                                                                  *)
RECURSIVE FracRest(_, _, _)
FracRest(r, d, count) ==
    IF count = 0 THEN r
    ELSE IF count = 1 THEN (2 * r) % d
    ELSE LET rest == FracRest(r, d, count \div 2)
         IN  IF rest = 0 THEN 0 ELSE FracRest(rest, d, count - count \div 2)

RECURSIVE FracBits(_, _, _)
FracBits(r, d, count) ==
    IF count = 0 THEN <<>>
    ELSE IF count = 1 THEN <<(2 * r) \div d>>
    ELSE LET rest == FracRest(r, d, count \div 2)
         IN  IF rest = 0 THEN FracBits(r, d, count \div 2) \o Zeros(count - count \div 2)
             ELSE FracBits(r, d, count \div 2)
                  \o FracBits(rest, d, count - count \div 2)

GuardBits == 70

(* The float nearest to n / d: what float() of a decimal literal, json.load *)
(* and round(x, 2) give for n hundredths.                                  *)
FloatOf(n, d) ==
    Rounded(IF n < 0 THEN -1 ELSE 1,
            Strip(IntBits(AbsInt(n) \div d) \o FracBits(AbsInt(n) % d, d, GuardBits)
                  \o <<IF FracRest(AbsInt(n) % d, d, GuardBits) = 0 THEN 0 ELSE 1>>),
            -(GuardBits + 1))

(* The remainder of the bit string m by n, with remainder rem carried in   *)
(* from the left, and the bits of the quotient; both by halves.            *)
RECURSIVE DivRest(_, _, _)
DivRest(m, n, rem) ==
    IF m = <<>> THEN rem
    ELSE IF Len(m) = 1 THEN (2 * rem + m[1]) % n
    ELSE LET rest == DivRest(Upper(m), n, rem)
         IN  IF rest = 0 THEN DivRest(Lower(m), n, 0) ELSE DivRest(Lower(m), n, rest)

RECURSIVE DivBits(_, _, _)
DivBits(m, n, rem) ==
    IF m = <<>> THEN <<>>
    ELSE IF Len(m) = 1 THEN <<(2 * rem + m[1]) \div n>>
    ELSE LET rest == DivRest(Upper(m), n, rem)
         IN  IF rest = 0 THEN DivBits(Upper(m), n, rem) \o DivBits(Lower(m), n, 0)
             ELSE DivBits(Upper(m), n, rem) \o DivBits(Lower(m), n, rest)

(* x / n for an int n > 0                                                  *)
FDivInt(x, n) ==
    IF x.m = <<>> THEN x
    ELSE Rounded(x.s,
                 Strip(DivBits(x.m \o Zeros(GuardBits), n, 0)
                       \o <<IF DivRest(x.m \o Zeros(GuardBits), n, 0) = 0 THEN 0 ELSE 1>>),
                 x.e - (GuardBits + 1))

-----------------------------------------------------------------------------

(* calculate_acceleration in binary64 arithmetic. The recorded indices are *)
(* the floats nearest to their two-decimal values; sum() adds from the     *)
(* left.                                                                   *)

FloatIndex(index) == FloatOf(index[1], index[2])

FDerivative(xs) == [i \in 1..(Len(xs) - 1) |-> FSub(xs[i + 1], xs[i])]

RECURSIVE FSum(_)
FSum(xs) == IF xs = <<>> THEN FZero ELSE FAdd(FSum(Front(xs)), xs[Len(xs)])

(* The classes with every acceleration other than 0 outside flat.          *)
ClassifyBinary64ZeroBand(avg_acceleration) ==
    IF FGt(avg_acceleration, FloatOf(5, 10))
    THEN [trend |-> "accelerating up", severity |-> "severe"]
    ELSE IF FGt(avg_acceleration, FZero)
    THEN [trend |-> "slow rise", severity |-> "watch"]
    ELSE IF avg_acceleration = FZero
    THEN [trend |-> "flat", severity |-> "normal"]
    ELSE [trend |-> "declining", severity |-> "improving"]

ClassifyBinary64(avg_acceleration) ==
    IF FGt(avg_acceleration, FloatOf(5, 10))
    THEN [trend |-> "accelerating up", severity |-> "severe"]
    ELSE IF FGt(avg_acceleration, FloatOf(1, 10))
    THEN [trend |-> "slow rise", severity |-> "watch"]
    ELSE IF FGt(avg_acceleration, FloatOf(-1, 10))
    THEN [trend |-> "flat", severity |-> "normal"]
    ELSE [trend |-> "declining", severity |-> "improving"]

calculate_acceleration_binary64(history, days) ==
    IF InsufficientData(history, days) THEN None
    ELSE LET dates == LastN(Sorted(Keys(history)), days)
             indices == [i \in 1..Len(dates) |->
                            FloatIndex(DictGet(history, dates[i], NoData).index)]
             first_derivative == FDerivative(indices)
             second_derivative == FDerivative(first_derivative)
             avg_acceleration ==
                 IF second_derivative # <<>>
                 THEN FDivInt(FSum(second_derivative), Len(second_derivative))
                 ELSE FZero
         IN  [acceleration |-> avg_acceleration,
              trend |-> ClassifyBinary64(avg_acceleration).trend,
              severity |-> ClassifyBinary64(avg_acceleration).severity]

(* n records of consecutive days ending with lastDay whose indices rise by *)
(* step hundredths a day from start hundredths.                            *)
LineHistory(lastDay, n, start, step) ==
    [i \in 1..n |-> HistoryItem(lastDay - n + i, start + step * (i - 1), 1000000)]

FloatHistories ==
    {LineHistory(StartDay - 1, n, start, step) :
        n \in {3, DefaultDays, DefaultDays + 1},
        start \in {0, 50, 137, -20},
        step \in {0, 1, 7, 10, 25, 100, -30}}
    \cup
    {GenHistory(StartDay - 1, DefaultDays, "convex"),
     GenHistory(StartDay - 1, DefaultDays, "tenth"),
     GenHistory(StartDay - 1, DefaultDays, "minus tenth"),
     GenHistory(StartDay - 1, DefaultDays, "steep")}

InitFloat ==
    /\ CollectorNotStarted
    /\ now = StartDay
    /\ daily_indices \in FloatHistories
    /\ file = JsonFile(daily_indices)
    /\ pc = "score"
    /\ cursor = 0
    /\ results = NoData
    /\ success_count = 0
    /\ answers = NoAnswers
    /\ problem_data = NoData
    /\ weighted = None
    /\ result = None
    /\ returned = None
    /\ log = "none"
    /\ window = 0
    /\ accel = None
    /\ cycles = 0
    /\ advanced = 0
    /\ atStart = [mem |-> daily_indices, disk |-> file]
    /\ prev = None
    /\ last = None

(* A call of calculate_acceleration(days).                                 *)
AccelerationBinary64 ==
    /\ pc = "score"
    /\ window = 0
    /\ \E days \in {3, DefaultDays} :
           /\ window' = days
           /\ accel' = calculate_acceleration_binary64(daily_indices, days)
    /\ UNCHANGED collectorVars
    /\ UNCHANGED <<answers, now, file, daily_indices, pc, cursor, results,
                   success_count, problem_data, weighted, result, returned, log,
                   cycles, advanced, atStart, prev, last>>

NextFloat == AccelerationBinary64

SpecFloat == InitFloat /\ [][NextFloat]_vars

-----------------------------------------------------------------------------

(* collect_all_problems with every kind of stats field the site can send,  *)
(* followed by the scorer.                                                 *)

FetchStats ==
    {StatsOfCount(2000000),
     StatsJson([totalAccepted |-> <<"1", ",", "5", "0", "0">>,
                totalSubmission |-> <<"4", ",", "0", "0", "0">>]),
     StatsJson([x \in {} |-> <<>>]),
     StatsJson([totalAccepted |-> <<"n", "/", "a">>,
                totalSubmission |-> <<"4", "0", "0", "0">>]),
     StatsJson([totalAccepted |-> <<"7">>, totalSubmission |-> <<>>]),
     NotJson}

FetchHistories == {EmptyDict, GenHistory(StartDay - 1, 1, "flat")}

InitFetch ==
    /\ CollectorNotStarted
    /\ now = StartDay
    /\ daily_indices \in FetchHistories
    /\ file = JsonFile(daily_indices)
    /\ pc = "ready"
    /\ cursor = 0
    /\ results = NoData
    /\ success_count = 0
    /\ answers = NoAnswers
    /\ problem_data = NoData
    /\ weighted = None
    /\ result = None
    /\ returned = None
    /\ log = "none"
    /\ window = 0
    /\ accel = None
    /\ cycles = 0
    /\ advanced = 0
    /\ atStart = [mem |-> daily_indices, disk |-> file]
    /\ prev = None
    /\ last = None

(* The site answers the question with any of the stats fields.             *)
FetchQuestion ==
    \E slug \in ReachableSlugs, stats \in FetchStats :
        /\ answers' = Answered(answers, slug, stats)
        /\ FetchStep(fetch_problem_data(slug, stats))

NextFetch ==
    \/ StartCollect
    \/ FetchQuestion
    \/ FetchFailure
    \/ FinishCollect
    \/ WeightedIndex
    \/ DefaultAcceleration
    \/ RecessionProbability

SpecFetch == InitFetch /\ [][NextFetch]_vars

-----------------------------------------------------------------------------
(* The single-problem collector (src/main.py): TwoSumDataCollector loads   *)
(* its history when constructed; run() collects once at once and then      *)
(* polls the clock every minute, collecting at the collection points.      *)
(* A record of the history is modelled by its total_submission,            *)
(* total_accepted and collection_time and by the keys is_demo and          *)
(* daily_increment where the code sets them; ac_rate, likes and dislikes   *)
(* are copied from the fetched result as they come and are left out.       *)

max_retries == 3

collect_times == <<"00:00", "08:00", "16:00">>

(* map(int, collect_time.split(':'))                                       *)
HourMinute(collect_time) ==
    CASE collect_time = "00:00" -> <<0, 0>>
      [] collect_time = "08:00" -> <<8, 0>>
      [] collect_time = "16:00" -> <<16, 0>>

(* now.strftime("%H:%M") split at the colon and read as two ints.          *)
CurrentHourMinute(t) == <<t.minute \div 60, t.minute % 60>>

(* f"{today}_{collect_time}": equal exactly when date and time are.        *)
CollectionKey(t, collect_time) == [date |-> Strftime(t.day), time |-> collect_time]

time_diff(t, collect_time) ==
    AbsInt((CurrentHourMinute(t)[1] * 60 + CurrentHourMinute(t)[2])
           - (HourMinute(collect_time)[1] * 60 + HourMinute(collect_time)[2]))

(* The loop of should_collect_now from the i-th collection time on.        *)
RECURSIVE ShouldCollectFrom(_, _, _)
ShouldCollectFrom(i, t, previous) ==
    IF i > Len(collect_times) THEN [should_collect |-> FALSE, collection_key |-> None]
    ELSE IF /\ time_diff(t, collect_times[i]) <= 5
            /\ CollectionKey(t, collect_times[i]) # previous
    THEN [should_collect |-> TRUE, collection_key |-> CollectionKey(t, collect_times[i])]
    ELSE ShouldCollectFrom(i + 1, t, previous)

should_collect_now(t, previous) == ShouldCollectFrom(1, t, previous)

(* rec[key] = value                                                        *)
WithKey(rec, key, value) ==
    [x \in DOMAIN rec \cup {key} |-> IF x = key THEN value ELSE rec[x]]

(* The old format of the data file: a list of records, each with its date. *)
IsList(data) == data # <<>> /\ "date" \in DOMAIN data[1]

RECURSIVE ListToDict(_)
ListToDict(data) ==
    IF data = <<>> THEN EmptyDict
    ELSE DictSet(ListToDict(SubSeq(data, 1, Len(data) - 1)), data[Len(data)].date,
                 [total_submission |->
                      IF "total_submission" \in DOMAIN data[Len(data)]
                      THEN data[Len(data)].total_submission ELSE 0,
                  total_accepted |->
                      IF "total_accepted" \in DOMAIN data[Len(data)]
                      THEN data[Len(data)].total_accepted ELSE 0])

two_sum_load_history(f) ==
    IF f.exists
    THEN IF f.valid
         THEN IF IsList(f.data) THEN ListToDict(f.data) ELSE f.data
         ELSE EmptyDict
    ELSE EmptyDict

(* save_history: the file written, or left as it was when open() fails, or *)
(* left cut off when json.dump fails; the exception is caught.             *)
two_sum_save_history(f, h) == {JsonFile(h), f, BrokenFile}

(* calculate_increment: today's total less the total of the date before    *)
(* today in sorted order, kept in today's record.                          *)
calculate_increment(h, today) ==
    LET dates == Sorted(Keys(h))
        today_index == CHOOSE i \in 1..Len(dates) : dates[i] = today
    IN  IF Len(dates) >= 2 /\ today_index > 1
        THEN DictSet(h, today,
                     WithKey(DictGet(h, today, None), "daily_increment",
                             DictGet(h, today, None).total_submission
                                 - DictGet(h, dates[today_index - 1], None).total_submission))
        ELSE h

(* collect_data after a successful fetch: self.history[today] = {...} and  *)
(* calculate_increment(today).                                             *)
StoreFetched(h, res, t) ==
    calculate_increment(
        DictSet(h, Strftime(t.day),
                [total_submission |-> res.total_submission,
                 total_accepted |-> res.total_accepted,
                 collection_time |-> t.minute]),
        Strftime(t.day))

(* use_demo_data                                                           *)
use_demo_data(h, t) ==
    calculate_increment(
        DictSet(h, Strftime(t.day),
                [total_submission |-> 9123456,
                 total_accepted |-> 3456789,
                 collection_time |-> t.minute,
                 is_demo |-> TRUE]),
        Strftime(t.day))

(* input().strip().lower()                                                 *)
StripLower(line) ==
    CASE line = "y" -> "y"
      [] line = " Y" -> "y"
      [] line = "n" -> "n"
      [] line = "yes" -> "yes"
      [] OTHER -> ""

-----------------------------------------------------------------------------

(* The process of src/main.py. A fetch and what collect_data does after it *)
(* are taken to end within the minute they began in.                       *)

MaxPolls == 3

(* The minutes that pass until the loop looks at the clock again: the      *)
(* sleep of a minute, or longer when the process was held up.              *)
Ticks == {1, 6, 474}

StartMinutes == {7 * 60 + 50, 7 * 60 + 56, 23 * 60 + 50}

Advance(t, minutes) ==
    [day |-> t.day + (t.minute + minutes) \div (24 * 60),
     minute |-> (t.minute + minutes) % (24 * 60)]

(* What the site answers when it answers.                                  *)
FetchedResult(total_submission) ==
    [success |-> TRUE, total_submission |-> total_submission,
     total_accepted |-> total_submission \div 2]

(* Data files: none, unparsable, the dict of one earlier day, and the old  *)
(* list format.                                                            *)
CollectorFiles ==
    {NoFile,
     BrokenFile,
     JsonFile(<<[k |-> Strftime(StartDay - 1),
                 v |-> [total_submission |-> 1500000, total_accepted |-> 700000,
                        collection_time |-> 480]]>>),
     JsonFile(<<[date |-> Strftime(StartDay - 2), total_submission |-> 1000000,
                 total_accepted |-> 400000],
                [date |-> Strftime(StartDay - 1), total_submission |-> 1500000]>>)}

InputLines == {"y", " Y", "n", ""}

CalculatorNotStarted ==
    /\ now = StartDay
    /\ file = NoFile
    /\ daily_indices = EmptyDict
    /\ pc = "not started"
    /\ cursor = 0
    /\ results = NoData
    /\ success_count = 0
    /\ answers = NoAnswers
    /\ problem_data = NoData
    /\ weighted = None
    /\ result = None
    /\ returned = None
    /\ log = "none"
    /\ window = 0
    /\ accel = None
    /\ cycles = 0
    /\ advanced = 0
    /\ atStart = None
    /\ prev = None
    /\ last = None

(* main(): TwoSumDataCollector() has been constructed.                     *)
InitCollector ==
    /\ CalculatorNotStarted
    /\ clock \in {[day |-> StartDay, minute |-> m] : m \in StartMinutes}
    /\ data_file \in CollectorFiles
    /\ two_sum_history = two_sum_load_history(data_file)
    /\ running = TRUE
    /\ at = "start"
    /\ attempt = 0
    /\ requests = <<>>
    /\ fetched = None
    /\ choice = "none"
    /\ collected = None
    /\ atCall = None
    /\ last_collection = None
    /\ collection_key = None
    /\ should = None
    /\ invoked = <<>>
    /\ polls = 0

(* collect_data is called; key is the collection key of a scheduled call   *)
(* and None for the call at start-up.                                      *)
BeginCollect(key) ==
    /\ at' = "graphql"
    /\ attempt' = 0
    /\ requests' = <<>>
    /\ fetched' = None
    /\ collected' = None
    /\ atCall' = [history |-> two_sum_history, data_file |-> data_file]
    /\ collection_key' = key

(* run after collect_data has returned, forgetting a collection point      *)
(* whose collection failed.                                                *)
last_collection_after_success(ret) ==
    IF collection_key = None THEN None
    ELSE IF ret THEN collection_key
    ELSE last_collection

(* run after collect_data has returned: last_collection = None after the   *)
(* call at start-up, last_collection = collection_key in the loop.         *)
last_collection_after(ret) ==
    IF collection_key = None THEN None ELSE collection_key

(* collect_data returns ret to run, which goes on to the loop after the    *)
(* call at start-up and to its sleep after a scheduled call.               *)
EndCollect(ret) ==
    /\ collected' = [value |-> ret]
    /\ last_collection' = last_collection_after(ret)
    /\ at' = IF collection_key = None THEN "loop" ELSE "sleep"

(* run up to its first call of collect_data.                               *)
RunStart ==
    /\ at = "start"
    /\ BeginCollect(None)
    /\ UNCHANGED <<clock, data_file, two_sum_history, running, choice,
                   last_collection, should, invoked, polls>>
    /\ UNCHANGED calculatorVars

(* A failed request of fetch_current_data that gives up GraphQL at once.   *)
GraphQLFailureOnce ==
    /\ requests' = Append(requests, [api |-> "graphql", attempt |-> attempt, ok |-> FALSE])
    /\ attempt' = 0
    /\ at' = "official"

(* A failed request of the loop of fetch_current_data: the next attempt,   *)
(* or fetch_from_official_api after the last.                              *)
GraphQLFailure ==
    /\ requests' = Append(requests, [api |-> "graphql", attempt |-> attempt, ok |-> FALSE])
    /\ IF attempt < max_retries - 1
       THEN attempt' = attempt + 1 /\ at' = "graphql"
       ELSE attempt' = 0 /\ at' = "official"

(* The rest of collect_data after a fetch that succeeded.                  *)
StoreAndReturn(res) ==
    /\ fetched' = res
    /\ two_sum_history' = StoreFetched(two_sum_history, res, clock)
    /\ data_file' \in two_sum_save_history(data_file, two_sum_history')
    /\ EndCollect(TRUE)

(* One turn of the loop of fetch_current_data.                             *)
GraphQLAttempt ==
    /\ at = "graphql"
    /\ \/ /\ \E c \in SiteCounts : StoreAndReturn(FetchedResult(c))
          /\ requests' =
                 Append(requests, [api |-> "graphql", attempt |-> attempt, ok |-> TRUE])
          /\ UNCHANGED attempt
       \/ /\ GraphQLFailure
          /\ UNCHANGED <<fetched, two_sum_history, data_file, collected, last_collection>>
    /\ UNCHANGED <<clock, running, choice, atCall, collection_key, should, invoked, polls>>
    /\ UNCHANGED calculatorVars

(* One turn of the loop of fetch_from_official_api; after the last failed  *)
(* one collect_data asks whether to use the demo data.                     *)
OfficialAttempt ==
    /\ at = "official"
    /\ \/ /\ \E c \in SiteCounts : StoreAndReturn(FetchedResult(c))
          /\ requests' =
                 Append(requests, [api |-> "official", attempt |-> attempt, ok |-> TRUE])
          /\ UNCHANGED attempt
       \/ /\ requests' =
                 Append(requests, [api |-> "official", attempt |-> attempt, ok |-> FALSE])
          /\ IF attempt < max_retries - 1
             THEN attempt' = attempt + 1 /\ at' = "official" /\ fetched' = fetched
             ELSE attempt' = attempt /\ at' = "prompt" /\ fetched' = [success |-> FALSE]
          /\ UNCHANGED <<two_sum_history, data_file, collected, last_collection>>
    /\ UNCHANGED <<clock, running, choice, atCall, collection_key, should, invoked, polls>>
    /\ UNCHANGED calculatorVars

(* collect_data from input() on, writing the history also when the user    *)
(* declines.                                                               *)
AnswerSaving ==
    /\ at = "prompt"
    /\ \E line \in InputLines :
           /\ choice' = StripLower(line)
           /\ IF choice' = "y"
              THEN /\ two_sum_history' = use_demo_data(two_sum_history, clock)
                   /\ data_file' \in two_sum_save_history(data_file, two_sum_history')
                   /\ EndCollect(TRUE)
              ELSE /\ two_sum_history' = two_sum_history
                   /\ data_file' = JsonFile(two_sum_history)
                   /\ EndCollect(FALSE)
    /\ UNCHANGED <<clock, running, attempt, requests, fetched, atCall, collection_key,
                   should, invoked, polls>>
    /\ UNCHANGED calculatorVars

(* collect_data from input() on: the demo data when the user types y.      *)
Answer ==
    /\ at = "prompt"
    /\ \E line \in InputLines :
           /\ choice' = StripLower(line)
           /\ IF choice' = "y"
              THEN /\ two_sum_history' = use_demo_data(two_sum_history, clock)
                   /\ data_file' \in two_sum_save_history(data_file, two_sum_history')
                   /\ EndCollect(TRUE)
              ELSE /\ UNCHANGED <<two_sum_history, data_file>>
                   /\ EndCollect(FALSE)
    /\ UNCHANGED <<clock, running, attempt, requests, fetched, atCall, collection_key,
                   should, invoked, polls>>
    /\ UNCHANGED calculatorVars

(* input() raises (no terminal): the exception leaves collect_data and     *)
(* run, and main() saves the history and ends.                             *)
InputFails ==
    /\ at = "prompt"
    /\ data_file' \in two_sum_save_history(data_file, two_sum_history)
    /\ at' = "exited"
    /\ UNCHANGED <<clock, two_sum_history, running, attempt, requests, fetched, choice,
                   collected, atCall, last_collection, collection_key, should,
                   invoked, polls>>
    /\ UNCHANGED calculatorVars

(* One turn of the loop of run up to its sleep or its call of collect_data. *)
ShouldCollectNow ==
    /\ at = "loop"
    /\ running
    /\ should' = [should_collect |-> should_collect_now(clock, last_collection).should_collect,
                  collection_key |-> should_collect_now(clock, last_collection).collection_key,
                  now |-> clock,
                  last_collection |-> last_collection]
    /\ IF should'.should_collect
       THEN /\ BeginCollect(should'.collection_key)
            /\ invoked' = Append(invoked, should'.collection_key)
       ELSE /\ collection_key' = should'.collection_key
            /\ at' = "sleep"
            /\ UNCHANGED <<attempt, requests, fetched, collected, atCall, invoked>>
    /\ UNCHANGED <<clock, data_file, two_sum_history, running, choice, last_collection,
                   polls>>
    /\ UNCHANGED calculatorVars

(* time.sleep(60)                                                          *)
Sleep ==
    /\ at = "sleep"
    /\ polls < MaxPolls
    /\ \E minutes \in Ticks : clock' = Advance(clock, minutes)
    /\ polls' = polls + 1
    /\ at' = "loop"
    /\ UNCHANGED <<data_file, two_sum_history, running, attempt, requests, fetched,
                   choice, collected, atCall, last_collection, collection_key,
                   should, invoked>>
    /\ UNCHANGED calculatorVars

(* Ctrl+C: signal_handler saves the history and ends the process.          *)
signal_handler ==
    /\ at \in {"start", "graphql", "official", "prompt", "loop", "sleep"}
    /\ running' = FALSE
    /\ data_file' \in two_sum_save_history(data_file, two_sum_history)
    /\ at' = "exited"
    /\ UNCHANGED <<clock, two_sum_history, attempt, requests, fetched, choice,
                   collected, atCall, last_collection, collection_key, should,
                   invoked, polls>>
    /\ UNCHANGED calculatorVars

NextCollector ==
    \/ RunStart
    \/ GraphQLAttempt
    \/ OfficialAttempt
    \/ Answer
    \/ InputFails
    \/ ShouldCollectNow
    \/ Sleep
    \/ signal_handler

SpecCollector == InitCollector /\ [][NextCollector]_vars

(* fetch_current_data on its own, from the call of collect_data at         *)
(* start-up on. Every request ends, for it has a timeout, and the waits    *)
(* between the attempts are finite: an attempt that can be made is made.   *)
InitRetries ==
    /\ CalculatorNotStarted
    /\ clock \in {[day |-> StartDay, minute |-> m] : m \in StartMinutes}
    /\ data_file \in CollectorFiles
    /\ two_sum_history = two_sum_load_history(data_file)
    /\ running = TRUE
    /\ at = "graphql"
    /\ attempt = 0
    /\ requests = <<>>
    /\ fetched = None
    /\ choice = "none"
    /\ collected = None
    /\ atCall = [history |-> two_sum_history, data_file |-> data_file]
    /\ last_collection = None
    /\ collection_key = None
    /\ should = None
    /\ invoked = <<>>
    /\ polls = 0

NextRetries == GraphQLAttempt \/ OfficialAttempt

SpecRetries ==
    InitRetries /\ [][NextRetries]_vars
        /\ WF_vars(GraphQLAttempt) /\ WF_vars(OfficialAttempt)

-----------------------------------------------------------------------------

(* Properties of the weighted index, stated on the state after             *)
(* calculate_weighted_index has returned: its inputs are problem_data,     *)
(* daily_indices and now, its result is weighted.                          *)

IndexComputed == pc = "trend" /\ DOMAIN problem_data # {}

(* Today's snapshots, by difficulty and place in the difficulty's list.    *)
TodayPositions ==
    IF DOMAIN problem_data = {} THEN {}
    ELSE {pos \in {"easy", "medium", "hard"} \X (1..4) : pos[2] <= Len(problem_data[pos[1]])}

TodaySnapshot(pos) == problem_data[pos[1]][pos[2]]

(* The totals the record of the day before now holds for the slug.         *)
YesterdayTotals(slug) ==
    {daily_indices[i].v.problems[j].total_submission :
        <<i, j>> \in {q \in (1..Len(daily_indices)) \X (1..12) :
                        /\ daily_indices[q[1]].k = Strftime(now - 1)
                        /\ q[2] <= Len(daily_indices[q[1]].v.problems)
                        /\ daily_indices[q[1]].v.problems[q[2]].slug = slug}}

ReportedIncrement(slug) == DictGet(weighted.details, slug, None).increment

ReportedScore(slug) == DictGet(weighted.details, slug, None).score

(* C6: for every problem in today's data, whenever yesterday's record      *)
(* holds a snapshot with the same slug, whatever its count, 0 included,    *)
(* the increment is today's total minus yesterday's total.                 *)
C6_IncrementIsDifferenceToYesterday ==
    IndexComputed =>
        \A pos \in TodayPositions :
            \A y \in YesterdayTotals(TodaySnapshot(pos).slug) :
                ReportedIncrement(TodaySnapshot(pos).slug)
                    = TodaySnapshot(pos).total_submission - y

(* C7, as the code has it: a problem with no snapshot of its slug in       *)
(* yesterday's record has the increment floor(total / 100), the remainder  *)
(* of a total that is no multiple of 100 being dropped; two-sum alone with *)
(* 1,000,000 gives the raw score 3,000 and the base index 0.003.           *)
C7_ProxyIsFloorOfHundredth ==
    IndexComputed =>
        /\ \A pos \in TodayPositions :
               YesterdayTotals(TodaySnapshot(pos).slug) = {} =>
                   ReportedIncrement(TodaySnapshot(pos).slug)
                       = TodaySnapshot(pos).total_submission \div 100
        /\ ( /\ daily_indices = EmptyDict
             /\ TodayPositions = {<<"easy", 1>>}
             /\ TodaySnapshot(<<"easy", 1>>).total_submission = 1000000 ) =>
               /\ weighted.raw_score = R(3000)
               /\ weighted.index = Frac(3, 1000)

(* C7, as the spec has it: without a baseline the increment is the total   *)
(* divided by 100, also for totals that are no multiples of 100.           *)
C7_ProxyIsExactHundredth ==
    IndexComputed =>
        \A pos \in TodayPositions :
            YesterdayTotals(TodaySnapshot(pos).slug) = {} =>
                R(ReportedIncrement(TodaySnapshot(pos).slug))
                    = Frac(TodaySnapshot(pos).total_submission, 100)

C7_NonMultipleWithoutBaseline ==
    /\ IndexComputed
    /\ \E pos \in TodayPositions :
           /\ YesterdayTotals(TodaySnapshot(pos).slug) = {}
           /\ TodaySnapshot(pos).total_submission % 100 # 0
           /\ ReportedIncrement(TodaySnapshot(pos).slug) = 1

(* increment * problem weight * difficulty weight, the difficulty weights  *)
(* as the spec lists them.                                                 *)
ClaimedContribution(pos) ==
    RMul(RMul(R(ReportedIncrement(TodaySnapshot(pos).slug)), TodaySnapshot(pos).weight),
         IF pos[1] = "hard" THEN Frac(15, 10)
         ELSE IF pos[1] = "medium" THEN Frac(12, 10)
         ELSE Frac(10, 10))

RECURSIVE ClaimedSum(_)
ClaimedSum(S) ==
    IF S = {} THEN R(0)
    ELSE RAdd(ClaimedContribution(CHOOSE pos \in S : TRUE),
              ClaimedSum(S \ {CHOOSE pos \in S : TRUE}))

(* C8: the raw score is the sum over all problems of increment * problem   *)
(* weight * difficulty weight (1.5 hard, 1.2 medium, 1.0 easy) and the     *)
(* base index is the raw score divided by 1,000,000, unclamped: negative   *)
(* when the raw score is.                                                  *)
C8_RawScoreIsWeightedSum ==
    IndexComputed =>
        /\ weighted.raw_score = ClaimedSum(TodayPositions)
        /\ RMul(weighted.index, R(1000000)) = weighted.raw_score
        /\ RLt(weighted.raw_score, R(0)) => RLt(weighted.index, R(0))

C8_NegativeIndexOfThreeDifficulties ==
    /\ IndexComputed
    /\ \A d \in {"easy", "medium", "hard"} : \E pos \in TodayPositions : pos[1] = d
    /\ RLt(weighted.raw_score, R(0))
    /\ RLt(weighted.index, R(0))

(* C9: a problem whose total_submission today is zero contributes exactly  *)
(* zero to the raw score, whatever yesterday's record holds for its slug.  *)
C9_ZeroTotalContributesZero ==
    IndexComputed =>
        \A pos \in TodayPositions :
            TodaySnapshot(pos).total_submission = 0 =>
                ReportedScore(TodaySnapshot(pos).slug) = R(0)

-----------------------------------------------------------------------------
(* Properties of the trend analyzer and the risk scorer.                   *)

(* C1: the probability calculate_recession_probability returns lies in     *)
(* [0, 100], whatever the base index, the acceleration result, the history *)
(* and the seasonal factor.                                                *)
C1_ProbabilityWithinBounds ==
    result # None =>
        /\ ~RLt(result.probability, R(0))
        /\ ~RLt(R(100), result.probability)

(* A score above 100 before the clamp: 40 + 30 + 20 in the hiring season.  *)
C1_ScoreAboveHundredClamped ==
    /\ pc = "record"
    /\ accel # None
    /\ RGt(RMul(original_score(weighted.index, accel, daily_indices),
                analyze_seasonal_pattern(now).factor), R(100))
    /\ result.probability = R(100)

(* C10: calculate_acceleration(days) returns no result exactly when the    *)
(* history holds fewer than days records, and a result otherwise; with no  *)
(* acceleration result the scorer completes, its score is made of the base *)
(* and the history terms alone, and the result reports the acceleration as *)
(* absent.                                                                 *)
C10_NoAccelerationIffTooFewRecords ==
    /\ window # 0 =>
           /\ (accel = None) <=> (Len(daily_indices) < window)
           /\ accel # None => "acceleration" \in DOMAIN accel
    /\ (pc = "record" /\ accel = None) =>
           /\ result # None
           /\ result.acceleration = None
           /\ result.probability =
                  RRound(RMin(RMax(RMul(RAdd(base_contribution(weighted.index),
                                             history_contribution(weighted.index,
                                                                  daily_indices)),
                                        result.seasonal_factor),
                                   R(0)), R(100)), 1)

C10_ScoredWithThirteenRecords ==
    /\ pc = "record"
    /\ Len(daily_indices) = DefaultDays - 1
    /\ window = DefaultDays
    /\ accel = None
    /\ result.acceleration = None
    /\ RGt(result.probability, R(0))

(* The number of records dated later than the i-th in the history.         *)
LaterRecords(i) ==
    Cardinality({j \in 1..Len(daily_indices) :
                    StrLt(daily_indices[i].k, daily_indices[j].k)})

(* Of the n records with the greatest dates, the index of the k-th in      *)
(* ascending order of date: n - k records are dated later.                 *)
IndexOfKth(n, k) ==
    daily_indices[CHOOSE i \in 1..Len(daily_indices) : LaterRecords(i) = n - k].v.index

(* C11: with at least days records (days >= 3), the acceleration is the    *)
(* mean of the days - 2 second differences of the indices of the days      *)
(* records with the greatest dates, in ascending date order. The second    *)
(* differences sum to the last first difference minus the first one.       *)
C11_AccelerationIsMeanSecondDifference ==
    (window >= 3 /\ Len(daily_indices) >= window) =>
        /\ accel # None
        /\ RMul(accel.acceleration, R(window - 2)) =
               RSub(RSub(IndexOfKth(window, window), IndexOfKth(window, window - 1)),
                    RSub(IndexOfKth(window, 2), IndexOfKth(window, 1)))

(* A window of 14 on 15 records whose second differences are not equal,    *)
(* and a window on records inserted out of date order.                     *)
C11_WindowShorterThanHistory ==
    /\ window = DefaultDays
    /\ Len(daily_indices) = DefaultDays + 1
    /\ accel # None
    /\ accel.acceleration = Frac(51, 100)

(* C12: an acceleration a > 0.5 is classed accelerating up / severe,       *)
(* 0.1 < a <= 0.5 slow rise / watch, -0.1 < a <= 0.1 flat / normal and     *)
(* a <= -0.1 declining / improving: one class each, the values 0.5, 0.1    *)
(* and -0.1 in the lower one. With a = n/d, d > 0, a > 1/2 is 2n > d.      *)
C12_TrendClassByThresholds ==
    accel # None =>
        /\ <<accel.trend, accel.severity>> \in
               {<<"accelerating up", "severe">>, <<"slow rise", "watch">>,
                <<"flat", "normal">>, <<"declining", "improving">>}
        /\ accel.trend = "accelerating up"
               <=> 2 * accel.acceleration[1] > accel.acceleration[2]
        /\ accel.trend = "slow rise"
               <=> /\ 10 * accel.acceleration[1] > accel.acceleration[2]
                   /\ 2 * accel.acceleration[1] <= accel.acceleration[2]
        /\ accel.trend = "flat"
               <=> /\ 10 * accel.acceleration[1] > -accel.acceleration[2]
                   /\ 10 * accel.acceleration[1] <= accel.acceleration[2]
        /\ accel.trend = "declining"
               <=> 10 * accel.acceleration[1] <= -accel.acceleration[2]

C12_HalfIsSlowRise ==
    /\ accel # None
    /\ accel.acceleration = Frac(1, 2)
    /\ accel.trend = "slow rise"
    /\ accel.severity = "watch"

(* The terms of the score as the specification words them, taken from the *)
(* scorer's inputs: the base index, the acceleration result and the        *)
(* recorded history.                                                       *)
Scored == result # None /\ weighted # None

MeanRecordedIndex ==
    RDiv(RSum([i \in 1..Len(daily_indices) |-> daily_indices[i].v.index]),
         R(Len(daily_indices)))

BaseTerm == RMin(RMul(weighted.index, R(40)), R(40))

AccelerationTerm ==
    IF accel # None /\ accel.acceleration[1] > 0
    THEN RMin(RMax(RMul(RAbs(accel.acceleration), R(20)), R(0)), R(30))
    ELSE R(0)

HistoricalTerm ==
    IF Len(daily_indices) = 0 THEN R(0)
    ELSE IF MeanRecordedIndex[1] > 0
    THEN RMin(RMul(RDiv(weighted.index, MeanRecordedIndex), R(20)), R(20))
    ELSE R(0)

TermSum == RAdd(RAdd(BaseTerm, AccelerationTerm), HistoricalTerm)

ScaledScore == RMul(TermSum, result.seasonal_factor)

ClampedScore ==
    IF ScaledScore[1] < 0 THEN R(0)
    ELSE IF ScaledScore[1] > 100 * ScaledScore[2] THEN R(100)
    ELSE ScaledScore

ProbabilityWithoutAcceleration ==
    probability(final_score(weighted.index, None, daily_indices,
                            result.seasonal_factor))

(* C14: the acceleration term min(max(|a| * 20, 0), 30) enters the score   *)
(* only for a strictly positive acceleration; with a zero or negative      *)
(* acceleration the probability equals the one computed for the same base  *)
(* index, history and season without an acceleration result.               *)
C14_AccelerationCountsOnlyWhenPositive ==
    (Scored /\ pc = "record" /\ accel # None) =>
        IF accel.acceleration[1] > 0
        THEN result.probability =
                 RRound(Clamp(RMul(RAdd(RAdd(BaseTerm, HistoricalTerm),
                                        RMin(RMul(accel.acceleration, R(20)), R(30))),
                                   result.seasonal_factor)), 1)
        ELSE result.probability = ProbabilityWithoutAcceleration

C14_NegativeAccelerationScored ==
    /\ Scored
    /\ pc = "record"
    /\ accel # None
    /\ accel.acceleration[1] < 0
    /\ result.probability[1] > 0
    /\ result.probability[1] < 100 * result.probability[2]

(* C15: the level follows from the clamped score s = n/d with exclusive    *)
(* lower bounds: s > 80 critical, 60 < s <= 80 warning, 40 < s <= 60       *)
(* watch, 20 < s <= 40 low, s <= 20 safe, and each level carries its one   *)
(* conclusion and action; a score of exactly 80, 60, 40 or 20 is in the    *)
(* lower level.                                                            *)
C15_LevelByExclusiveLowerBounds ==
    (Scored /\ pc = "record") =>
        /\ <<result.level, result.conclusion, result.action>> \in
               {<<"critical", "extremely high layoff risk, market abnormally active",
                  "monitor immediately, prepare contingency">>,
                <<"warning", "elevated layoff risk", "stay alert, adjust hiring plan">>,
                <<"watch", "moderate risk, within normal fluctuation",
                  "monitor periodically">>,
                <<"low", "market relatively stable",
                  "normal operation, hiring permissible">>,
                <<"safe", "market quiet, low risk", "good time to stockpile talent">>}
        /\ result.level = "critical" <=> ClampedScore[1] > 80 * ClampedScore[2]
        /\ result.level = "warning"
               <=> /\ ClampedScore[1] > 60 * ClampedScore[2]
                   /\ ClampedScore[1] <= 80 * ClampedScore[2]
        /\ result.level = "watch"
               <=> /\ ClampedScore[1] > 40 * ClampedScore[2]
                   /\ ClampedScore[1] <= 60 * ClampedScore[2]
        /\ result.level = "low"
               <=> /\ ClampedScore[1] > 20 * ClampedScore[2]
                   /\ ClampedScore[1] <= 40 * ClampedScore[2]
        /\ result.level = "safe" <=> ClampedScore[1] <= 20 * ClampedScore[2]

C15_ScoreOfEightyIsWarning ==
    /\ Scored
    /\ pc = "record"
    /\ ClampedScore = R(80)
    /\ result.level = "warning"

(* C16: the seasonal factor is 1.3, labelled hiring season, when the       *)
(* current month is 3, 4, 9 or 10, and 0.8, labelled off season, in the    *)
(* other eight months, whatever the data, the history and the day of the   *)
(* month.                                                                  *)
C16_SeasonalFactorByMonth ==
    Scored =>
        IF Strftime(result.timestamp)[2] \in {3, 4, 9, 10}
        THEN /\ result.seasonal_factor = Frac(13, 10)
             /\ result.season_desc = "hiring season"
        ELSE /\ result.seasonal_factor = Frac(8, 10)
             /\ result.season_desc = "off season"

C16_MayIsOffSeason ==
    /\ Scored
    /\ Strftime(result.timestamp)[2] = 5
    /\ result.seasonal_factor = Frac(8, 10)
    /\ Len(daily_indices) > 0

-----------------------------------------------------------------------------
(* Properties of the collect-and-analyze cycle.                            *)

(* C2: two cycles in succession on the same date, with identical fetched   *)
(* snapshots and the same history of the other dates, leave the same       *)
(* record for the date, and the second does not change the number of       *)
(* records.                                                                *)
C2_SecondRunLeavesSameRecord ==
    ( /\ prev # None
      /\ last # None
      /\ prev.date = last.date
      /\ prev.data = last.data
      /\ prev.prior = last.prior ) =>
        /\ last.record = prev.record
        /\ last.size = prev.size

(* C3: the history, in memory and on disk, holds at most one record per    *)
(* date: the number of records is the number of distinct dates.            *)
C3_OneRecordPerDate ==
    /\ Len(daily_indices) = Cardinality(KeySet(daily_indices))
    /\ Len(file.data) = Cardinality(KeySet(file.data))

(* A cycle has written the date its history, loaded from the file, held    *)
(* already from the cycle before.                                          *)
C3_DateWrittenAgain ==
    /\ pc = "done"
    /\ prev # None
    /\ prev.date = last.date
    /\ HasKey(atStart.mem, last.date)
    /\ HasKey(file.data, last.date)
    /\ Len(daily_indices) = Len(atStart.mem)

(* C4: while the problems are being fetched no step writes the history in  *)
(* memory or the history on disk, and a cycle abandoned during the fetch   *)
(* leaves both as they were when it began.                                 *)
C4_NoWriteBeforeFetchCompletes ==
    [][ /\ pc = "collect" => (daily_indices' = daily_indices /\ file' = file)
        /\ pc' = "aborted" => (daily_indices' = atStart'.mem /\ file' = atStart'.disk)
      ]_vars

C4_AbandonedAfterSnapshots ==
    /\ pc = "aborted"
    /\ success_count > 0
    /\ Len(atStart.mem) > 0
    /\ daily_indices = atStart.mem
    /\ file = atStart.disk

(* C5: after the cycle has written it, the record under today's date holds *)
(* the base index the weighted index calculator computed in the cycle, the *)
(* probability of the cycle's result, and exactly one problems entry       *)
(* (slug, name, total_submission) for each snapshot fetched in the cycle.  *)
C5_RecordHoldsIndexProbabilityProblems ==
    pc = "save" =>
        /\ HasKey(daily_indices, Strftime(now))
        /\ DictGet(daily_indices, Strftime(now), None).index = weighted.index
        /\ DictGet(daily_indices, Strftime(now), None).probability = result.probability
        /\ Len(DictGet(daily_indices, Strftime(now), None).problems)
               = Cardinality(TodayPositions)
        /\ \A pos \in TodayPositions :
               \E j \in 1..Len(DictGet(daily_indices, Strftime(now), None).problems) :
                   DictGet(daily_indices, Strftime(now), None).problems[j]
                       = [slug |-> TodaySnapshot(pos).slug,
                          name |-> TodaySnapshot(pos).name,
                          total_submission |-> TodaySnapshot(pos).total_submission]

(* C18: when the write of the history file fails at the end of a cycle,    *)
(* collect_and_analyze still returns the computed result, and the history  *)
(* in memory is what a successful write leaves: after either, today's      *)
(* record is present and the records of the other dates are those from     *)
(* before the cycle.                                                       *)
C18_FailedWriteKeepsResultAndMemory ==
    (pc = "done" /\ log \in {"save failed", "saved"}) =>
        /\ returned # None
        /\ returned.result = result
        /\ returned.problem_data = problem_data
        /\ HasKey(daily_indices, last.date)
        /\ DictGet(daily_indices, last.date, None) = last.record
        /\ Without(daily_indices, last.date) = last.prior

C18_FailedWriteWithEarlierRecords ==
    /\ pc = "done"
    /\ log = "save failed"
    /\ Len(last.prior) > 0
    /\ HasKey(daily_indices, last.date)
    /\ ~HasKey(file.data, last.date)
    /\ returned.result.probability[1] > 0

(* What the caller of collect_and_analyze gets from a cycle: the returned  *)
(* pair, no exception, and the calculator's history in memory.             *)
CallerView == [returned |-> returned, daily_indices |-> daily_indices]

(* The same after a cycle whose write succeeded.                           *)
CallerViewAfterSuccessfulWrite ==
    [returned |-> [result |-> result, problem_data |-> problem_data],
     daily_indices |-> daily_indices]

(* C17: when the write of the history file fails at the end of a cycle,    *)
(* the caller of the cycle can tell: what it gets differs from what it     *)
(* gets from the same cycle with a successful write.                       *)
C17_WriteFailureVisibleToCaller ==
    (pc = "done" /\ log = "save failed") =>
        CallerView # CallerViewAfterSuccessfulWrite

(* The counters of the stats field cannot be parsed: the field is not      *)
(* JSON, or a counter is not a number written with digits and commas.      *)
Unparseable(stats) ==
    \/ ~stats.json
    \/ \E key \in {"totalAccepted", "totalSubmission"} :
           ~IsInt(RemoveCommas(stats_get(stats, key)))

(* C19: a problem fetched with a stats field whose counters cannot be      *)
(* parsed reaches the scorer as a snapshot with total_submission 0 and     *)
(* total_accepted 0, and the cycle goes on to its result.                  *)
C19_UnparseableCountersAreZero ==
    pc \in {"score", "trend", "risk", "record"} =>
        \A pos \in TodayPositions :
            ( /\ TodaySnapshot(pos).slug \in DOMAIN answers
              /\ Unparseable(answers[TodaySnapshot(pos).slug]) ) =>
                /\ TodaySnapshot(pos).success
                /\ TodaySnapshot(pos).total_submission = 0
                /\ TodaySnapshot(pos).total_accepted = 0

(* The problems of the catalog whose fetch failed in the cycle: those the  *)
(* site gave no answer for.                                                *)
FailedSlugs ==
    {CatalogOrder[n].problem.slug : n \in 1..Len(CatalogOrder)} \ DOMAIN answers

Collected == pc \in {"score", "trend", "risk", "record", "save", "done"}

(* C20: when at least one problem was fetched, a problem whose fetch       *)
(* failed is in no difficulty's list of the collected data, has no entry   *)
(* in the details of the weighted index and none in the problems of the    *)
(* record the cycle writes, and the scorer gives its result all the same.  *)
C20_FailedFetchIsAbsent ==
    (Collected /\ success_count > 0) =>
        \A slug \in FailedSlugs :
            /\ \A pos \in TodayPositions : TodaySnapshot(pos).slug # slug
            /\ pc \in {"trend", "risk", "record", "save", "done"} =>
                   \A i \in 1..Len(weighted.details) : weighted.details[i].k # slug
            /\ pc \in {"record", "save", "done"} =>
                   /\ result # None
                   /\ result.details = weighted.details
            /\ pc \in {"save", "done"} =>
                   \A j \in 1..Len(DictGet(daily_indices, last.date, None).problems) :
                       DictGet(daily_indices, last.date, None).problems[j].slug # slug

C20_OneFetchedOneFailed ==
    /\ pc = "save"
    /\ success_count = 1
    /\ "two-sum" \in FailedSlugs
    /\ "median-of-two-sorted-arrays" \in DOMAIN answers
    /\ Len(DictGet(daily_indices, last.date, None).problems) = 1
    /\ result.probability[1] > 0

(* C21: a cycle changes only the record under its date: the records of     *)
(* every other date are, after the cycle, what they were when it began, in *)
(* memory and, once the history is written, in the file.                   *)
C21_OtherDatesUntouched ==
    /\ pc \in {"save", "done"} =>
           Without(daily_indices, last.date) = Without(atStart.mem, last.date)
    /\ (pc = "done" /\ log = "saved") =>
           Without(file.data, last.date)
               = Without(load_history(atStart.disk), last.date)

C21_OverwrittenBesideOtherDate ==
    /\ pc = "done"
    /\ log = "saved"
    /\ HasKey(atStart.mem, last.date)
    /\ Len(Without(atStart.mem, last.date)) > 0
    /\ DictGet(atStart.mem, last.date, None) # last.record
    /\ DictGet(file.data, last.date, None) = last.record

(* C22: the history file only grows: every date the file held when a run   *)
(* loaded it is still in the file when the run has ended its cycle,        *)
(* whether or not the file could be loaded.                                *)
C22_FileKeepsItsDates ==
    pc = "done" => KeySet(atStart.disk.data) \subseteq KeySet(file.data)

(* The window of the last acceleration query holds an arithmetic           *)
(* progression: the recorded indices of its records, in order of date,     *)
(* have one common difference.                                             *)
WindowIsProgression ==
    /\ window >= 1
    /\ Len(daily_indices) >= window
    /\ \A k \in 2..(window - 1) :
           RSub(IndexOfKth(window, k + 1), IndexOfKth(window, k))
               = RSub(IndexOfKth(window, k), IndexOfKth(window, k - 1))

(* The k-th second difference as calculate_acceleration computes it.       *)
SecondDifference(k) ==
    FSub(FSub(FloatIndex(IndexOfKth(window, k + 1)), FloatIndex(IndexOfKth(window, k))),
         FSub(FloatIndex(IndexOfKth(window, k)), FloatIndex(IndexOfKth(window, k - 1))))

(* C23, as stated: for a window whose indices form an arithmetic           *)
(* progression every second difference is 0, the acceleration is 0 and the *)
(* trend is flat / normal.                                                 *)
C23_ProgressionHasZeroAcceleration ==
    (accel # None /\ WindowIsProgression) =>
        /\ \A k \in 2..(window - 1) : SecondDifference(k) = FZero
        /\ accel.acceleration = FZero
        /\ accel.trend = "flat"
        /\ accel.severity = "normal"

(* C23, amended: for such a window the trend is flat / normal and the      *)
(* acceleration is 0 up to the rounding of the subtractions: its magnitude *)
(* is below 2^-40, and it is exactly 0 when the indices are whole numbers. *)
C23_ProgressionIsFlat ==
    (accel # None /\ WindowIsProgression) =>
        /\ accel.trend = "flat"
        /\ accel.severity = "normal"
        /\ accel.acceleration = FZero \/ accel.acceleration.e + Precision <= -40
        /\ (\A k \in 1..window : IndexOfKth(window, k)[2] = 1)
               => accel.acceleration = FZero

C23_TenthStepsRoundOffZero ==
    /\ accel # None
    /\ WindowIsProgression
    /\ window = DefaultDays
    /\ Len(daily_indices) = DefaultDays
    /\ RSub(IndexOfKth(window, 2), IndexOfKth(window, 1)) = Frac(1, 10)
    /\ accel.acceleration # FZero
    /\ accel.trend = "flat"

-----------------------------------------------------------------------------
(* The sign of the weighted index.                                         *)

SignOf(x) == IF x[1] > 0 THEN 1 ELSE IF x[1] < 0 THEN -1 ELSE 0

-----------------------------------------------------------------------------
(* What collect_all_problems returns, stated on the state in which it has  *)
(* returned and the scorer has not yet begun.                              *)

IsDemo(snapshot) == "is_demo" \in DOMAIN snapshot /\ snapshot.is_demo

TierNames == {"easy", "medium", "hard"}

(* C25: collect_all_problems returns only snapshots of fetches that        *)
(* succeeded, none of them marked is_demo and at least one of them, when a *)
(* fetch succeeded; it returns the demo set, one snapshot marked is_demo   *)
(* for each of the 12 catalog problems, when all 12 fetches failed. All    *)
(* tiers empty, or demo snapshots beside fetched ones, it never returns.   *)
C25_RealSnapshotsOrCompleteDemoSet ==
    pc = "score" =>
        IF answers = NoAnswers
        THEN /\ \A d \in TierNames :
                    /\ Len(problem_data[d]) = Len(problems[d])
                    /\ \A i \in 1..Len(problems[d]) :
                           /\ problem_data[d][i].slug = problems[d][i].slug
                           /\ IsDemo(problem_data[d][i])
             /\ Cardinality(TodayPositions) = 12
        ELSE /\ \A pos \in TodayPositions :
                    /\ ~IsDemo(TodaySnapshot(pos))
                    /\ TodaySnapshot(pos).success
                    /\ TodaySnapshot(pos).slug \in DOMAIN answers
             /\ \A slug \in DOMAIN answers :
                    \E pos \in TodayPositions : TodaySnapshot(pos).slug = slug
             /\ TodayPositions # {}

(* All twelve fetches failed and the demo set came back.                   *)
C25_TwelveFailuresGiveDemoSet ==
    /\ pc = "score"
    /\ answers = NoAnswers
    /\ cursor = Len(CatalogOrder) + 1
    /\ success_count = 0
    /\ \A pos \in TodayPositions : IsDemo(TodaySnapshot(pos))
    /\ Cardinality(TodayPositions) = 12

-----------------------------------------------------------------------------
(* The scheduler of src/main.py, stated on what should_collect_now         *)
(* returned last and on the time and the last_collection it was asked for. *)

PointMinute(collect_time) ==
    HourMinute(collect_time)[1] * 60 + HourMinute(collect_time)[2]

(* The minutes from the time t to the collection point and from the point  *)
(* to t, whichever is less; midnight is the end of a day and the beginning *)
(* of the next.                                                            *)
MinutesFromPoint(t, collect_time) ==
    LET ahead == (PointMinute(collect_time) - t.minute + 24 * 60) % (24 * 60)
        past == (t.minute - PointMinute(collect_time) + 24 * 60) % (24 * 60)
    IN  IF ahead < past THEN ahead ELSE past

(* The date the collection point near t falls on.                          *)
PointKey(t, collect_time) ==
    IF PointMinute(collect_time) = 0 /\ t.minute > 12 * 60
    THEN [date |-> Strftime(t.day + 1), time |-> collect_time]
    ELSE [date |-> Strftime(t.day), time |-> collect_time]

DuePoints(t, previous) ==
    {i \in 1..Len(collect_times) :
        /\ MinutesFromPoint(t, collect_times[i]) <= 5
        /\ PointKey(t, collect_times[i]) # previous}

(* C26: should_collect_now reports a collection as due, with the key of    *)
(* the point, whenever the time is within 5 minutes before or after one of *)
(* 00:00, 08:00 and 16:00 and the key of that date and point is not        *)
(* last_collection; at every other time it returns (False, None).          *)
C26_DueWithinFiveMinutesOfPoint ==
    should # None =>
        IF DuePoints(should.now, should.last_collection) # {}
        THEN /\ should.should_collect
             /\ \E i \in DuePoints(should.now, should.last_collection) :
                    should.collection_key = PointKey(should.now, collect_times[i])
        ELSE /\ ~should.should_collect
             /\ should.collection_key = None

-----------------------------------------------------------------------------
(* fetch_current_data, stated on the requests sent since collect_data was  *)
(* called.                                                                 *)

Fetching == at \in {"graphql", "official"}

RequestsTo(api) == SelectSeq(requests, LAMBDA r : r.api = api)

(* C27: fetch_current_data makes at most 3 GraphQL attempts and at most 3  *)
(* attempts at the backup API, makes no request after one that succeeded,  *)
(* goes to the backup API only after 3 failed GraphQL attempts, returns    *)
(* success=False only after 6 failed attempts, and always comes to an end. *)
C27_FetchEndsWithinSixAttempts ==
    /\ [](/\ Len(RequestsTo("graphql")) <= 3
          /\ Len(RequestsTo("official")) <= 3
          /\ \A i \in 1..Len(requests) :
                 requests[i].ok =>
                     /\ i = Len(requests)
                     /\ ~Fetching
                     /\ fetched # None
                     /\ fetched.success
          /\ \A i \in 1..Len(requests) :
                 requests[i].api = "official" =>
                     /\ i > 3
                     /\ \A j \in 1..3 : requests[j].api = "graphql" /\ ~requests[j].ok
          /\ (fetched # None /\ ~fetched.success) =>
                 /\ Len(requests) = 6
                 /\ \A i \in 1..6 : ~requests[i].ok)
    /\ Fetching ~> ~Fetching

(* All six attempts failed and the fetch gave up.                          *)
C27_SixFailuresThenGivesUp ==
    /\ at = "prompt"
    /\ fetched = [success |-> FALSE]
    /\ Len(RequestsTo("graphql")) = 3
    /\ Len(RequestsTo("official")) = 3

-----------------------------------------------------------------------------
(* C28: the polling loop of run calls collect_data at most once for each   *)
(* date and collection point, whether that collection succeeded or failed; *)
(* the call at start-up is not among the scheduled calls.                  *)
C28_OncePerDateAndPoint ==
    \A i \in 1..Len(invoked), j \in 1..Len(invoked) :
        invoked[i] = invoked[j] => i = j

(* A scheduled collection failed and the loop, looking at the clock again  *)
(* within the same window, did not call collect_data again.                *)
C28_FailedCollectionNotRetried ==
    /\ at = "sleep"
    /\ collected = [value |-> FALSE]
    /\ invoked # <<>>
    /\ last_collection = invoked[Len(invoked)]
    /\ should # None
    /\ ~should.should_collect
    /\ should.last_collection = last_collection
    /\ should.now = clock
    /\ Strftime(clock.day) = last_collection.date
    /\ time_diff(clock, last_collection.time) <= 5

-----------------------------------------------------------------------------
(* The level the reported probability belongs to.                          *)
LevelOfProbability(p) ==
    IF RGt(p, R(80)) THEN "critical"
    ELSE IF RGt(p, R(60)) THEN "warning"
    ELSE IF RGt(p, R(40)) THEN "watch"
    ELSE IF RGt(p, R(20)) THEN "low"
    ELSE "safe"

(* C29: the level of a result agrees with the probability of the same      *)
(* result, the score rounded to one decimal: critical above 80, warning    *)
(* above 60 up to 80, watch above 40 up to 60, low above 20 up to 40, safe *)
(* up to 20.                                                               *)
C29_LevelAgreesWithProbability ==
    result # None => result.level = LevelOfProbability(result.probability)

-----------------------------------------------------------------------------
(* collect_data of the single-problem collector, stated on the state in    *)
(* which it has returned and on the history and the file as they were when *)
(* it was called.                                                          *)

Returned == collected # None /\ at \in {"loop", "sleep"}

AllAttemptsFailed ==
    /\ Len(requests) = 2 * max_retries
    /\ \A i \in 1..Len(requests) : ~requests[i].ok

(* C30: when every fetch attempt fails and the user declines the demo      *)
(* data, collect_data returns False, the history in memory is as it was    *)
(* and the history file is not rewritten; the history is changed and saved *)
(* only after a successful fetch or after the demo data was accepted.      *)
C30_DeclinedCollectionChangesNothing ==
    /\ (at \in {"graphql", "official", "prompt"}) =>
           /\ two_sum_history = atCall.history
           /\ data_file = atCall.data_file
    /\ Returned =>
           /\ (AllAttemptsFailed /\ choice # "y") =>
                  /\ collected = [value |-> FALSE]
                  /\ two_sum_history = atCall.history
                  /\ data_file = atCall.data_file
           /\ (two_sum_history # atCall.history \/ data_file # atCall.data_file) =>
                  /\ collected = [value |-> TRUE]
                  /\ \/ fetched # None /\ fetched.success
                     \/ AllAttemptsFailed /\ choice = "y"
           /\ collected = [value |-> FALSE] => (AllAttemptsFailed /\ choice # "y")

(* Six failed attempts and the answer n, with records in the history and a *)
(* file that does not hold the history as it is in memory: nothing was     *)
(* written.                                                                *)
C30_DeclinedWithUnsavedHistory ==
    /\ Returned
    /\ AllAttemptsFailed
    /\ choice = "n"
    /\ collected = [value |-> FALSE]
    /\ two_sum_history # EmptyDict
    /\ two_sum_history = atCall.history
    /\ data_file # JsonFile(two_sum_history)
    /\ data_file = atCall.data_file

=============================================================================
